---- MODULE Spec2Model ----
(***************************************************************************)
(* Model of the calibration-and-measurement pipeline of macroscopia:        *)
(* VisionService.analyze_biopsy_complete and the functions it calls         *)
(* (detect_grid_advanced and its detectors, PerspectiveCorrector,           *)
(* CalibrationHelper, segment_biopsy, calculate_measurements,               *)
(* convert_numpy_types).                                                    *)
(*                                                                         *)
(* The image is represented by what the OpenCV primitives return on it      *)
(* (line positions, peak indices, region areas, contours); those are the    *)
(* nondeterministic inputs of the steps.  Every formula of the source that  *)
(* turns them into a scale, a confidence or a result field is computed      *)
(* here as the source computes it, over exact rationals with a NaN value.   *)
(***************************************************************************)
EXTENDS Integers, Sequences, FiniteSets, TLC

(***************************************************************************)
(* Floating point numbers: exact rationals [n, d] in lowest terms, d > 0;   *)
(* d = 0 is NaN, which numpy produces for 0.0/0.0.                          *)
(***************************************************************************)
Abs(i) == IF i < 0 THEN -i ELSE i

RECURSIVE GCD(_, _)
GCD(a, b) == IF b = 0 THEN a ELSE GCD(b, a % b)

NaN == [n |-> 0, d |-> 0]

IsNaN(x) == x.d = 0

R(n, d) ==
    IF d = 0 THEN NaN
    ELSE LET s == IF d < 0 THEN -1 ELSE 1
             g == GCD(Abs(n), Abs(d))
         IN  [n |-> (s * n) \div g, d |-> (s * d) \div g]

I(i) == R(i, 1)

Zero == I(0)

One == I(1)

RAdd(x, y) == IF IsNaN(x) \/ IsNaN(y) THEN NaN ELSE R(x.n * y.d + y.n * x.d, x.d * y.d)

RSub(x, y) == IF IsNaN(x) \/ IsNaN(y) THEN NaN ELSE R(x.n * y.d - y.n * x.d, x.d * y.d)

RMul(x, y) == IF IsNaN(x) \/ IsNaN(y) THEN NaN ELSE R(x.n * y.n, x.d * y.d)

RAbs(x) == IF IsNaN(x) THEN NaN ELSE [n |-> Abs(x.n), d |-> x.d]

\* Comparisons: every comparison with NaN is false, as in IEEE 754.
RLt(x, y) == ~IsNaN(x) /\ ~IsNaN(y) /\ x.n * y.d < y.n * x.d

RLe(x, y) == ~IsNaN(x) /\ ~IsNaN(y) /\ x.n * y.d <= y.n * x.d

RGt(x, y) == RLt(y, x)

RGe(x, y) == RLe(y, x)

\* numpy scalar division: a zero divisor gives a value, not an exception.
\* The only zero divisors the detectors meet divide zero (0.0/0.0 = nan).
NpDiv(x, y) == IF IsNaN(x) \/ IsNaN(y) \/ y.n = 0 THEN NaN ELSE R(x.n * y.d, x.d * y.n)

\* Python's builtin min(a, b) and max(a, b): the first argument is kept
\* unless the second compares strictly smaller (greater).
PyMin(a, b) == IF RLt(b, a) THEN b ELSE a

PyMax(a, b) == IF RGt(b, a) THEN b ELSE a

InUnit(x) == RLe(Zero, x) /\ RLe(x, One)

(***************************************************************************)
(* Sequences of numbers.                                                    *)
(***************************************************************************)
RECURSIVE SumSeq(_)
SumSeq(s) == IF s = <<>> THEN 0 ELSE Head(s) + SumSeq(Tail(s))

\* list.sort()
Sorted(s) == SortSeq(s, LAMBDA a, b: a < b)

\* np.diff
Diff(s) == [i \in 1..(Len(s) - 1) |-> s[i + 1] - s[i]]

\* Variant: an orientation with fewer than two lines is given the spacing 1.
MeanSpacingDefaultOne(lines) ==
    IF Len(lines) > 1 THEN R(SumSeq(Diff(lines)), Len(lines) - 1) ELSE One

\* np.mean(np.diff(lines)) if len(lines) > 1 else 0
MeanSpacing(lines) ==
    IF Len(lines) > 1 THEN R(SumSeq(Diff(lines)), Len(lines) - 1) ELSE Zero

RECURSIVE MaxSeq(_)
MaxSeq(s) == IF Len(s) = 1 THEN s[1]
             ELSE LET m == MaxSeq(Tail(s)) IN IF m > Head(s) THEN m ELSE Head(s)

(***************************************************************************)
(* Grid detectors (vision_service.py).  A line is [rho, theta] as returned  *)
(* by cv2.HoughLines, theta in milliradians; <<>> stands for None.          *)
(***************************************************************************)
PiMrad == 3142

HalfPiMrad == 1571

\* The dict a detector returns.  A detector that found no grid returns only
\* 'confidence' and 'method_used' (has_estimate = FALSE: the other keys are
\* absent).
NoEstimate(method) ==
    [confidence |-> Zero, method_used |-> method, has_estimate |-> FALSE,
     pixels_per_mm |-> Zero,
     grid_lines |-> [horizontal |-> <<>>, vertical |-> <<>>],
     quality_score |-> Zero]

Estimate(method, conf, ppm, h, v, quality) ==
    [confidence |-> conf, method_used |-> method, has_estimate |-> TRUE,
     pixels_per_mm |-> ppm,
     grid_lines |-> [horizontal |-> h, vertical |-> v],
     quality_score |-> quality]

\* rho of the lines whose theta is within tol of 0 or pi (horizontal)
HorizontalRhos(lines, tol) ==
    LET keep(l) == Abs(l.theta) < tol \/ Abs(l.theta - PiMrad) < tol
    IN  [i \in 1..Len(SelectSeq(lines, keep)) |-> SelectSeq(lines, keep)[i].rho]

\* rho of the lines that are not horizontal and within tol of pi/2 (vertical)
VerticalRhos(lines, tol) ==
    LET keep(l) == /\ ~(Abs(l.theta) < tol \/ Abs(l.theta - PiMrad) < tol)
                   /\ Abs(l.theta - HalfPiMrad) < tol
    IN  [i \in 1..Len(SelectSeq(lines, keep)) |-> SelectSeq(lines, keep)[i].rho]

HoughTolerance == 200

RelaxedTolerance == 400

detect_grid_hough(lines, grid_size_mm) ==
    IF lines = <<>> THEN NoEstimate("hough")
    ELSE
    LET h_lines == Sorted(HorizontalRhos(lines, HoughTolerance))
        v_lines == Sorted(VerticalRhos(lines, HoughTolerance))
        h_spacing == MeanSpacing(h_lines)
        v_spacing == MeanSpacing(v_lines)
        avg_spacing == NpDiv(RAdd(h_spacing, v_spacing), I(2))
        pixels_per_mm == NpDiv(avg_spacing, grid_size_mm)
        expected_spacing == avg_spacing
        spacing_accuracy ==
            RSub(One, PyMin(One, NpDiv(RAbs(RSub(h_spacing, expected_spacing)),
                                       expected_spacing)))
        regularity ==
            RSub(One, NpDiv(RAbs(RSub(h_spacing, v_spacing)),
                            PyMax(h_spacing, v_spacing)))
        line_count_factor == PyMin(One, R(Len(h_lines) + Len(v_lines), 15))
        grid_consistency ==
            RAdd(RAdd(RMul(spacing_accuracy, R(4, 10)), RMul(regularity, R(3, 10))),
                 RMul(line_count_factor, R(3, 10)))
        confidence == RMul(grid_consistency, R(9, 10))
    IN  IF RGt(h_spacing, Zero) /\ RGt(v_spacing, Zero)
        THEN Estimate("hough", confidence, pixels_per_mm, h_lines, v_lines, regularity)
        ELSE NoEstimate("hough")

\* h_positions, v_positions: the mean y (x) of the contours of the opened
\* horizontal (vertical) line images whose area exceeds 100.
detect_grid_morphological(h_positions, v_positions, grid_size_mm) ==
    IF Len(h_positions) > 2 /\ Len(v_positions) > 2
    THEN
    LET h_sorted == Sorted(h_positions)
        v_sorted == Sorted(v_positions)
        h_spacing == R(SumSeq(Diff(h_sorted)), Len(h_sorted) - 1)
        v_spacing == R(SumSeq(Diff(v_sorted)), Len(v_sorted) - 1)
        avg_spacing == NpDiv(RAdd(h_spacing, v_spacing), I(2))
        pixels_per_mm == NpDiv(avg_spacing, grid_size_mm)
        expected_spacing == avg_spacing
        h_accuracy ==
            RSub(One, PyMin(One, NpDiv(RAbs(RSub(h_spacing, expected_spacing)),
                                       expected_spacing)))
        v_accuracy ==
            RSub(One, PyMin(One, NpDiv(RAbs(RSub(v_spacing, expected_spacing)),
                                       expected_spacing)))
        regularity ==
            RSub(One, NpDiv(RAbs(RSub(h_spacing, v_spacing)),
                            PyMax(h_spacing, v_spacing)))
        grid_quality == NpDiv(RAdd(RAdd(h_accuracy, v_accuracy), regularity), I(3))
        confidence == RMul(grid_quality, R(8, 10))
    IN  Estimate("morphological", confidence, pixels_per_mm, h_sorted, v_sorted, regularity)
    ELSE NoEstimate("morphological")

\* h_peaks, v_peaks: the indices _find_frequency_peaks returns on the central
\* row and column of the FFT magnitude (indices start at 1: range(1, len-1));
\* w, h: the size of the gray image; raises: an exception inside the try.
detect_grid_frequency(h_peaks, v_peaks, w, h, raises, grid_size_mm) ==
    IF ~raises /\ Len(h_peaks) > 0 /\ Len(v_peaks) > 0
    THEN
    LET h_period == IF MaxSeq(h_peaks) > 0 THEN R(w, MaxSeq(h_peaks)) ELSE Zero
        v_period == IF MaxSeq(v_peaks) > 0 THEN R(h, MaxSeq(v_peaks)) ELSE Zero
        avg_period == NpDiv(RAdd(h_period, v_period), I(2))
        pixels_per_mm == NpDiv(avg_period, grid_size_mm)
        confidence == PyMin(R(6, 10), R(Len(h_peaks) + Len(v_peaks), 10))
    IN  IF RGt(h_period, Zero) /\ RGt(v_period, Zero)
        THEN Estimate("frequency", confidence, pixels_per_mm, <<>>, <<>>, confidence)
        ELSE NoEstimate("frequency")
    ELSE NoEstimate("frequency")

\* lines: the largest cv2.HoughLines result over the edge and vote attempts;
\* raises: an exception inside the try, which the function swallows.
detect_grid_relaxed(lines, raises, grid_size_mm) ==
    IF raises \/ lines = <<>> \/ Len(lines) < 4 THEN NoEstimate("relaxed_fallback")
    ELSE
    LET h_raw == HorizontalRhos(lines, RelaxedTolerance)
        v_raw == VerticalRhos(lines, RelaxedTolerance)
        h_lines == Sorted(h_raw)
        v_lines == Sorted(v_raw)
        h_spacing == MeanSpacing(h_lines)
        v_spacing == MeanSpacing(v_lines)
        avg_spacing == NpDiv(RAdd(h_spacing, v_spacing), I(2))
        pixels_per_mm == NpDiv(avg_spacing, grid_size_mm)
        confidence == PyMin(R(4, 10), R(Len(h_lines) + Len(v_lines), 20))
    IN  IF /\ Len(h_raw) >= 2 /\ Len(v_raw) >= 2
           /\ RGt(h_spacing, Zero) /\ RGt(v_spacing, Zero)
        THEN Estimate("relaxed_fallback", confidence, pixels_per_mm, h_lines, v_lines,
                      confidence)
        ELSE NoEstimate("relaxed_fallback")

(***************************************************************************)
(* PerspectiveCorrector (perspective_correction.py).  angles: the angles in *)
(* degrees of the lines cv2.HoughLines finds in an image; <<>> is None.     *)
(***************************************************************************)
QualityThreshold == 70

estimate_grid_quality(angles) ==
    IF angles = <<>>
    THEN [quality |-> Zero, needs_correction |-> TRUE, reason |-> "No lines detected"]
    ELSE
    LET isH(a) == a < 10 \/ a > 170
        isV(a) == a > 80 /\ a < 100
        horizontal_lines == Len(SelectSeq(angles, isH))
        vertical_lines == Len(SelectSeq(angles, isV))
        total_lines == Len(angles)
        perpendicular_ratio == R(horizontal_lines + vertical_lines, total_lines)
        quality_score == RMul(perpendicular_ratio, I(100))
        needs_correction == RLt(quality_score, I(QualityThreshold))
    IN  [quality |-> quality_score, needs_correction |-> needs_correction,
         reason |-> IF needs_correction THEN "Low perpendicular ratio"
                    ELSE "Good grid alignment"]

\* Variant: the rectified image is kept when its quality is not lower.
CorrectionNotWorse(corrected_quality, quality_info) ==
    RGe(corrected_quality.quality, quality_info.quality)

\* A strict comparison of the two quality scores decides whether the
\* rectified image is kept.
CorrectionImproved(corrected_quality, quality_info) ==
    RGt(corrected_quality.quality, quality_info.quality)

\* angles: the lines of the input image; corners_found: detect_grid_corners
\* returned four corners; correct_raises: correct_perspective (or the second
\* quality estimate) raised; corrected_angles: the lines of the rectified image.
\* Returns the image handed back ("original" or "rectified") and the info dict.
auto_correct_perspective(angles, corners_found, correct_raises, corrected_angles) ==
    LET quality_info == estimate_grid_quality(angles)
        corrected_quality == estimate_grid_quality(corrected_angles)
    IN  IF ~quality_info.needs_correction
        THEN [image |-> "original", corrected |-> FALSE, reason |-> "No correction needed"]
        ELSE IF ~corners_found
        THEN [image |-> "original", corrected |-> FALSE,
              reason |-> "Could not detect grid corners"]
        ELSE IF correct_raises
        THEN [image |-> "original", corrected |-> FALSE, reason |-> "Correction failed"]
        ELSE IF CorrectionImproved(corrected_quality, quality_info)
        THEN [image |-> "rectified", corrected |-> TRUE,
              reason |-> "Perspective corrected successfully"]
        ELSE [image |-> "original", corrected |-> FALSE,
              reason |-> "Correction did not improve quality"]

\* correct_perspective resamples to output_size = (800, 600).
RectifiedWidth == 800

RectifiedHeight == 600

(***************************************************************************)
(* CalibrationHelper (calibration_helper.py).                               *)
(***************************************************************************)
typical_scene_widths == <<100, 150, 200, 250, 300>>

RECURSIVE EmergencyLoop(_, _, _, _)
\* the for loop of create_emergency_calibration from index i on;
\* best_estimate = NaN stands for None.
EmergencyLoop(width, i, best_estimate, best_reasonableness) ==
    IF i > Len(typical_scene_widths) THEN best_estimate
    ELSE
    LET pixels_per_mm == R(width, typical_scene_widths[i])
        reasonableness == RSub(One, NpDiv(RAbs(RSub(pixels_per_mm, I(40))), I(40)))
    IN  IF /\ RLe(I(10), pixels_per_mm) /\ RLe(pixels_per_mm, I(100))
           /\ RGt(reasonableness, best_reasonableness)
        THEN EmergencyLoop(width, i + 1, pixels_per_mm, reasonableness)
        ELSE EmergencyLoop(width, i + 1, best_estimate, best_reasonableness)

create_emergency_calibration(width, grid_size_mm) ==
    LET found == EmergencyLoop(width, 1, NaN, Zero)
        best_estimate == IF IsNaN(found) THEN I(30) ELSE found
    IN  [pixels_per_mm |-> best_estimate, method |-> "emergency_estimation",
         confidence |-> R(3, 10), scenario |-> "",
         warning |-> "Calibracao de emergencia", suggestions |-> <<>>]

validate_calibration(pixels_per_mm, width, height) ==
    LET low == RLt(pixels_per_mm, I(5))
        high == ~low /\ RGt(pixels_per_mm, I(200))
        distance_from_optimal ==
            PyMin(RAbs(RSub(pixels_per_mm, I(20))), RAbs(RSub(pixels_per_mm, I(80))))
        confidence ==
            IF RLe(I(20), pixels_per_mm) /\ RLe(pixels_per_mm, I(80)) THEN One
            ELSE PyMax(R(1, 10), RSub(One, NpDiv(distance_from_optimal, I(50))))
    IN  [valid |-> ~low /\ ~high,
         confidence |-> confidence,
         suggestions |-> IF low THEN <<"Aproxime a camera do objeto">>
                         ELSE IF high THEN <<"Afaste a camera do objeto">>
                         ELSE <<>>]

typical_calibrations ==
    << [pixels_per_mm |-> I(25), scenario |-> "Vista ampla do microscopio"],
       [pixels_per_mm |-> I(40), scenario |-> "Vista padrao de biopsia"],
       [pixels_per_mm |-> I(60), scenario |-> "Vista aproximada"] >>

\* max(strategies, key=confidence): the first strategy of greatest confidence
RECURSIVE BestStrategy(_, _)
BestStrategy(strategies, best) ==
    IF strategies = <<>> THEN best
    ELSE BestStrategy(Tail(strategies),
                      IF RGt(Head(strategies).confidence, best.confidence)
                      THEN Head(strategies) ELSE best)

get_fallback_calibration(width, height, grid_size_mm) ==
    LET emergency_cal == create_emergency_calibration(width, grid_size_mm)
        typical(cal) ==
            LET validation == validate_calibration(cal.pixels_per_mm, width, height)
            IN  [pixels_per_mm |-> cal.pixels_per_mm, method |-> "typical_scenario",
                 confidence |-> validation.confidence, scenario |-> cal.scenario,
                 warning |-> "", suggestions |-> validation.suggestions]
        strategies == <<emergency_cal>> \o [i \in 1..Len(typical_calibrations) |->
                                              typical(typical_calibrations[i])]
        best_strategy == BestStrategy(Tail(strategies), Head(strategies))
    IN  [pixels_per_mm |-> best_strategy.pixels_per_mm,
         method |-> best_strategy.method,
         confidence |-> best_strategy.confidence,
         scenario |-> IF best_strategy.scenario = "" THEN "Calibracao de emergencia"
                      ELSE best_strategy.scenario,
         warning |-> "Usando calibracao alternativa",
         \* the returned dict has no 'validation' key
         suggestions |-> <<>>]

\* Variant: the emergency estimate without its minimum of 10.
emergency_fallback_without_minimum(width, height) ==
    [pixels_per_mm |-> R(IF width < height THEN width ELSE height, 100),
     method |-> "emergency_fallback",
     confidence |-> R(1, 10), scenario |-> "Emergency",
     warning |-> "Usando calibracao de emergencia", suggestions |-> <<>>]

\* the except branch of analyze_biopsy_complete around get_fallback_calibration
emergency_fallback(width, height) ==
    LET estimated_pixels_per_mm == R(IF width < height THEN width ELSE height, 100)
    IN  [pixels_per_mm |-> PyMax(I(10), estimated_pixels_per_mm),
         method |-> "emergency_fallback",
         confidence |-> R(1, 10), scenario |-> "Emergency",
         warning |-> "Usando calibracao de emergencia", suggestions |-> <<>>]

(***************************************************************************)
(* Segmentation strategies and measurements (vision_service.py).            *)
(* A contour is what cv2.findContours returns for the chosen region:        *)
(* points = len(contour), area = cv2.contourArea, perimeter = cv2.arcLength,*)
(* w, h = cv2.boundingRect, major, minor = the axes of cv2.fitEllipse.      *)
(* NoContour stands for "no region found" (the strategy returns no contour).*)
(* hull_area = cv2.contourArea(cv2.convexHull(contour)); none: the value is *)
(* None rather than an array.                                               *)
(***************************************************************************)
NoContour ==
    [points |-> 0, area |-> 0, perimeter |-> 0, w |-> 0, h |-> 0, major |-> 0, minor |-> 0,
     hull_area |-> 0, none |-> TRUE]

\* np.pi, to the precision the bounds below need
Pi == R(355, 113)

\* The dict a strategy returns; has_contour = FALSE: only 'confidence' and
\* 'method_used' are present.
NoCandidate(method) ==
    [confidence |-> Zero, method_used |-> method, has_contour |-> FALSE,
     contour |-> NoContour, preprocessing_used |-> <<>>]

Candidate(method, conf, contour) ==
    [confidence |-> conf, method_used |-> method, has_contour |-> TRUE,
     contour |-> contour, preprocessing_used |-> <<>>]

\* contour: the largest contour of the largest watershed region, NoContour
\* when no label above 1 exists; total_area: gray.shape[0] * gray.shape[1].
segment_watershed(contour, total_area) ==
    IF contour.points = 0 THEN NoCandidate("watershed")
    ELSE Candidate("watershed",
                   PyMin(R(8, 10), NpDiv(I(contour.area), RMul(I(total_area), R(1, 10)))),
                   contour)

\* contour: the largest contour found in the cleaned adaptive threshold image
segment_adaptive_threshold(contour, total_area) ==
    LET min_area == RMul(I(total_area), R(5, 1000))
        max_area == RMul(I(total_area), R(85, 100))
        compactness ==
            IF contour.perimeter > 0
            THEN NpDiv(RMul(RMul(I(4), Pi), I(contour.area)),
                       I(contour.perimeter * contour.perimeter))
            ELSE Zero
    IN  IF /\ contour.points > 0
           /\ RLt(min_area, I(contour.area)) /\ RLt(I(contour.area), max_area)
        THEN Candidate("adaptive_threshold", PyMin(R(7, 10), RMul(compactness, I(2))),
                       contour)
        ELSE NoCandidate("adaptive_threshold")

\* color_image: len(original.shape) == 3
segment_color_based(contour, total_area, color_image) ==
    IF /\ color_image /\ contour.points > 0
       /\ RGt(I(contour.area), RMul(I(total_area), R(1, 100)))
       /\ RLt(I(contour.area), RMul(I(total_area), R(8, 10)))
    THEN Candidate("color_based",
                   PyMin(R(6, 10), NpDiv(I(contour.area), RMul(I(total_area), R(2, 10)))),
                   contour)
    ELSE NoCandidate("color_based")

\* edge_sum: np.sum(edges[mask > 0]), the edge pixels inside the region * 255
segment_edge_based(contour, total_area, edge_sum) ==
    IF /\ contour.points > 0
       /\ RGt(I(contour.area), RMul(I(total_area), R(2, 100)))
       /\ RLt(I(contour.area), RMul(I(total_area), R(7, 10)))
    THEN LET edge_strength == IF contour.area > 0 THEN R(edge_sum, contour.area) ELSE Zero
         IN  Candidate("edge_based", PyMin(R(5, 10), NpDiv(edge_strength, I(50))), contour)
    ELSE NoCandidate("edge_based")

\* The keys of processed other than 'original', in insertion order.
Variants == <<"gray", "enhanced", "bilateral", "gaussian", "morphed", "combined">>

Methods == <<"watershed", "adaptive_threshold", "color_based", "edge_based">>

RECURSIVE Pow10(_)
Pow10(k) == IF k = 0 THEN 1 ELSE 10 * Pow10(k - 1)

\* round(x, k): to k decimals, ties to even
Round(x, k) ==
    IF IsNaN(x) THEN NaN
    ELSE LET num == x.n * Pow10(k)
             q == num \div x.d
             r2 == 2 * (num % x.d)
             up == r2 > x.d \/ (r2 = x.d /\ q % 2 = 1)
         IN  R(IF up THEN q + 1 ELSE q, Pow10(k))

\* Variant: the scale is used before the contour is looked at.
RaisesOnZeroScale(contour, pixels_per_mm) == pixels_per_mm.n = 0

\* Python's float division raises ZeroDivisionError on a zero divisor: a
\* scale of 0 makes the first division of calculate_measurements raise.
calculate_measurements_raises(contour, pixels_per_mm) ==
    contour.points > 0 /\ pixels_per_mm.n = 0

EmptyDict == [k \in {} |-> Zero]

\* the integer part of the square root of n, for lo * lo <= n < hi * hi
RECURSIVE ISqrtBetween(_, _, _)
ISqrtBetween(n, lo, hi) ==
    IF hi - lo <= 1 THEN lo
    ELSE LET mid == (lo + hi) \div 2
         IN  IF mid * mid <= n THEN ISqrtBetween(n, mid, hi) ELSE ISqrtBetween(n, lo, mid)

\* np.sqrt(4 * area_pixels / np.pi), to one decimal
SqrtOfAreaOverPi(area_pixels) ==
    R(ISqrtBetween(((4 * area_pixels * Pi.d) \div Pi.n) * 100, 0, 40000), 10)

\* Variant: the circularity without the guard on a zero perimeter.
CircularityUnguarded(contour) ==
    NpDiv(RMul(RMul(I(4), Pi), I(contour.area)), I(contour.perimeter * contour.perimeter))

\* circularity (line 800); roundness (line 817) is the same expression
Circularity(contour) ==
    IF contour.perimeter > 0
    THEN NpDiv(RMul(RMul(I(4), Pi), I(contour.area)),
               I(contour.perimeter * contour.perimeter))
    ELSE Zero

\* Variant: the axes in the order cv2.fitEllipse returns them.
AxesAsFitted(contour) == [major |-> I(contour.major), minor |-> I(contour.minor)]

\* lines 790-792: max(axes) and min(axes) of the ellipse cv2.fitEllipse fits
FittedAxes(contour) ==
    [major |-> PyMax(I(contour.major), I(contour.minor)),
     minor |-> PyMin(I(contour.major), I(contour.minor))]

\* equivalent_diameter_mm and angle_degrees are not modelled.
calculate_measurements(contour, pixels_per_mm) ==
    IF contour.none \/ contour.points = 0 THEN EmptyDict
    ELSE
    LET area_mm2 == NpDiv(I(contour.area), RMul(pixels_per_mm, pixels_per_mm))
        perimeter_mm == NpDiv(I(contour.perimeter), pixels_per_mm)
        width_mm == NpDiv(I(contour.w), pixels_per_mm)
        height_mm == NpDiv(I(contour.h), pixels_per_mm)
        fit == contour.points >= 5
        major_axis_mm == IF fit
                         THEN NpDiv(FittedAxes(contour).major, pixels_per_mm)
                         ELSE PyMax(width_mm, height_mm)
        minor_axis_mm == IF fit
                         THEN NpDiv(FittedAxes(contour).minor, pixels_per_mm)
                         ELSE PyMin(width_mm, height_mm)
        circularity == Circularity(contour)
        aspect_ratio == IF RGt(minor_axis_mm, Zero)
                        THEN NpDiv(major_axis_mm, minor_axis_mm) ELSE One
        solidity == IF contour.hull_area > 0
                    THEN R(contour.area, contour.hull_area) ELSE Zero
        extent == IF contour.w * contour.h > 0
                  THEN R(contour.area, contour.w * contour.h) ELSE Zero
        compactness ==
            IF contour.perimeter > 0
            THEN NpDiv(SqrtOfAreaOverPi(contour.area), NpDiv(I(contour.perimeter), Pi))
            ELSE Zero
    IN  [area_mm2 |-> Round(area_mm2, 2),
         perimeter_mm |-> Round(perimeter_mm, 2),
         width_mm |-> Round(width_mm, 2),
         height_mm |-> Round(height_mm, 2),
         length_max_mm |-> Round(major_axis_mm, 2),
         width_max_mm |-> Round(minor_axis_mm, 2),
         circularity |-> Round(circularity, 3),
         aspect_ratio |-> Round(aspect_ratio, 2),
         solidity |-> Round(solidity, 3),
         extent |-> Round(extent, 3),
         roundness |-> Round(circularity, 3),
         compactness |-> Round(compactness, 3),
         pixels_per_mm |-> Round(pixels_per_mm, 2),
         area_pixels |-> I(contour.area)]

(***************************************************************************)
(* convert_numpy_types (vision_service.py).  The native type of a value is  *)
(* a tree: kind is a Python type ("int", "float", "bool", "str", "NoneType",*)
(* "dict", "list", "tuple") or a numpy type ("np.integer", "np.floating",   *)
(* "np.bool_", "ndarray"); kids are the values of a dict or the items of a  *)
(* list, keys the keys of a dict.                                           *)
(***************************************************************************)
Leaf(kind) == [kind |-> kind, keys |-> <<>>, kids |-> <<>>]

DictOf(keys, kids) == [kind |-> "dict", keys |-> keys, kids |-> kids]

ListOf(kids) == [kind |-> "list", keys |-> <<>>, kids |-> kids]

NumpyKinds == {"np.integer", "np.floating", "np.bool_", "ndarray"}

\* Variant: only a value that is itself a numpy value is converted,
\* containers are returned as they are.
ConvertTopLevelOnly(obj) ==
    IF obj.kind = "ndarray" THEN ListOf(<<>>)
    ELSE IF obj.kind = "np.integer" THEN Leaf("int")
    ELSE IF obj.kind = "np.floating" THEN Leaf("float")
    ELSE IF obj.kind = "np.bool_" THEN Leaf("bool")
    ELSE obj

RECURSIVE convert_numpy_types(_)
convert_numpy_types(obj) ==
    IF obj.kind = "ndarray" THEN ListOf(<<>>)
    ELSE IF obj.kind = "np.integer" THEN Leaf("int")
    ELSE IF obj.kind = "np.floating" THEN Leaf("float")
    ELSE IF obj.kind = "np.bool_" THEN Leaf("bool")
    ELSE IF obj.kind = "dict"
    THEN DictOf(obj.keys, [i \in 1..Len(obj.kids) |-> convert_numpy_types(obj.kids[i])])
    ELSE IF obj.kind \in {"list", "tuple"}
    THEN ListOf([i \in 1..Len(obj.kids) |-> convert_numpy_types(obj.kids[i])])
    ELSE obj

RECURSIVE HasNumpy(_)
HasNumpy(obj) ==
    \/ obj.kind \in NumpyKinds
    \/ \E i \in 1..Len(obj.kids) : HasNumpy(obj.kids[i])

(***************************************************************************)
(* Native types of the values the stages put into the result.               *)
(***************************************************************************)
RECURSIVE KeyIndex(_, _, _)
KeyIndex(keys, key, i) ==
    IF i > Len(keys) THEN 0 ELSE IF keys[i] = key THEN i ELSE KeyIndex(keys, key, i + 1)

\* d[key] = val on a dict node
SetKey(d, key, val) ==
    LET i == KeyIndex(d.keys, key, 1)
    IN  IF i = 0 THEN DictOf(Append(d.keys, key), Append(d.kids, val))
        ELSE DictOf(d.keys, [d.kids EXCEPT ![i] = val])

GetKey(d, key) == d.kids[KeyIndex(d.keys, key, 1)]

LinesType(lines, kind) == ListOf([i \in 1..Len(lines) |-> Leaf(kind)])

\* grid_info as analyze_biopsy_complete holds it before conversion
GridInfoType(grid_info) ==
    LET m == grid_info.method_used
        detector == m \in {"hough", "morphological", "frequency", "relaxed_fallback"}
        \* rho values are np.float32, contour means np.float64; spacing means
        \* and what is computed from them are np.float64; the frequency and
        \* relaxed confidences are Python floats (min of a float and int / int)
        num == IF m \in {"hough", "morphological", "relaxed_fallback"}
               THEN "np.floating" ELSE "float"
        conf == IF m \in {"hough", "morphological"} THEN "np.floating" ELSE "float"
        base == DictOf(
            <<"grid_detected", "pixels_per_mm", "grid_lines", "confidence",
              "method_used", "quality_score">>,
            <<Leaf("bool"), Leaf(num),
              DictOf(<<"horizontal", "vertical">>,
                     <<LinesType(grid_info.grid_lines.horizontal, "np.floating"),
                       LinesType(grid_info.grid_lines.vertical, "np.floating")>>),
              Leaf(conf), Leaf("str"), Leaf(conf)>>)
        correction == DictOf(
            <<"corrected", "reason", "quality">>,
            <<Leaf("bool"), Leaf("str"),
              DictOf(<<"quality", "needs_correction", "horizontal_lines">>,
                     <<Leaf("np.floating"), Leaf("np.bool_"), Leaf("np.integer")>>)>>)
        fallback == DictOf(
            <<"pixels_per_mm", "method", "confidence", "scenario", "warning",
              "all_strategies">>,
            <<Leaf("float"), Leaf("str"), Leaf("float"), Leaf("str"), Leaf("str"),
              ListOf(<<DictOf(<<"pixels_per_mm", "confidence">>,
                              <<Leaf("float"), Leaf("float")>>)>>)>>)
    IN  IF detector /\ grid_info.grid_detected
        THEN SetKey(SetKey(base, "perspective_correction", correction),
                    "detection_threshold_used", Leaf("float"))
        ELSE IF grid_info.has_fallback_info
        THEN SetKey(SetKey(base, "calibration_scenario", Leaf("str")),
                    "fallback_info", fallback)
        ELSE base

\* segmentation_info: 'contour' and 'mask' are ndarrays (None when absent);
\* the edge-based confidence is np.sum(...) / area, an np.float64.
SegmentationInfoType(segmentation_info) ==
    DictOf(<<"biopsy_detected", "contour", "mask", "confidence", "method_used",
             "preprocessing_used">>,
           <<Leaf("bool"),
             Leaf(IF segmentation_info.biopsy_detected THEN "ndarray" ELSE "NoneType"),
             Leaf(IF segmentation_info.biopsy_detected THEN "ndarray" ELSE "NoneType"),
             Leaf(IF segmentation_info.method_used = "edge_based" THEN "np.floating"
                  ELSE "float"),
             Leaf("str"),
             ListOf([i \in 1..Len(segmentation_info.preprocessing_used) |-> Leaf("str")])>>)

\* {k: v for k, v in segmentation_info.items() if k not in ['contour', 'mask']}
\* followed by segmentation_for_api['contour_points'] = ...
WithoutContourAndMask(t) ==
    LET keep == SelectSeq([i \in 1..Len(t.keys) |-> i],
                          LAMBDA i : t.keys[i] \notin {"contour", "mask"})
    IN  SetKey(DictOf([j \in 1..Len(keep) |-> t.keys[keep[j]]],
                      [j \in 1..Len(keep) |-> t.kids[keep[j]]]),
               "contour_points", Leaf("int"))

MeasurementKeys ==
    <<"area_mm2", "perimeter_mm", "width_mm", "height_mm", "length_max_mm",
      "width_max_mm", "equivalent_diameter_mm", "circularity", "aspect_ratio",
      "solidity", "extent", "roundness", "compactness", "angle_degrees",
      "pixels_per_mm", "area_pixels", "perimeter_pixels">>

\* the measurements that do not depend on the scale: the values of np.sqrt
\* are numpy scalars, the ratios of OpenCV's floats are floats
MeasurementKind(key) ==
    IF key \in {"equivalent_diameter_mm", "compactness"} THEN "np.floating"
    ELSE IF key = "area_pixels" THEN "int"
    ELSE "float"

\* round() of an np.float64 is an np.float64: every measurement divided by
\* a detected scale is a numpy scalar; area_pixels is int(...).
MeasurementsType(grid_info) ==
    LET num == IF grid_info.method_used \in {"hough", "morphological", "relaxed_fallback"}
               THEN "np.floating" ELSE "float"
    IN  DictOf(MeasurementKeys,
               [i \in 1..Len(MeasurementKeys) |->
                   IF MeasurementKeys[i] \in {"area_mm2", "perimeter_mm", "width_mm",
                                              "height_mm", "length_max_mm", "width_max_mm",
                                              "aspect_ratio", "pixels_per_mm"}
                   THEN Leaf(num) ELSE Leaf(MeasurementKind(MeasurementKeys[i]))])

NoSampleMeasurementsType ==
    DictOf(<<"area_mm2", "length_max_mm", "width_max_mm", "pixels_per_mm",
             "calibration_available", "manual_measurement_possible">>,
           <<Leaf("float"), Leaf("float"), Leaf("float"), Leaf("float"),
             Leaf("bool"), Leaf("bool")>>)

InitialResultType ==
    DictOf(<<"success", "timestamp", "processing_time_ms", "image_info",
             "grid_detection", "biopsy_segmentation", "measurements",
             "overlay_image", "confidence_overall", "errors", "warnings">>,
           <<Leaf("bool"), Leaf("str"), Leaf("int"),
             DictOf(<<"width", "height", "channels">>,
                    <<Leaf("int"), Leaf("int"), Leaf("int")>>),
             DictOf(<<>>, <<>>), DictOf(<<>>, <<>>), DictOf(<<>>, <<>>),
             Leaf("NoneType"), Leaf("int"), ListOf(<<>>), ListOf(<<>>)>>)

(***************************************************************************)
(* Inputs.  An image is its size and what the OpenCV primitives find in it; *)
(* the latter is chosen when the primitive is called.                       *)
(***************************************************************************)
Images == { [width |-> 800, height |-> 600, color |-> TRUE] }

GridSizes == { I(10) }

\* calibration_data: None, a dict without 'pixels_per_mm', and dicts with it
NoCalibration == [truthy |-> FALSE, has_pixels_per_mm |-> FALSE, pixels_per_mm |-> Zero]

Calibrations ==
    { NoCalibration,
      [truthy |-> TRUE, has_pixels_per_mm |-> FALSE, pixels_per_mm |-> Zero],
      [truthy |-> TRUE, has_pixels_per_mm |-> TRUE, pixels_per_mm |-> I(40)],
      [truthy |-> TRUE, has_pixels_per_mm |-> TRUE, pixels_per_mm |-> Zero] }

L(rho, theta) == [rho |-> rho, theta |-> theta]

\* three horizontal and three vertical lines 40 px apart, in Hough order
Grid3 == <<L(90, 0), L(10, 0), L(50, 0), L(50, 1571), L(10, 1571), L(90, 1553)>>

\* horizontal lines 60 px apart on average (one near theta = pi, with a
\* negative rho), vertical lines 10 px apart
Uneven == <<L(0, 0), L(40, 17), L(-80, 3124), L(0, 1571), L(10, 1571), L(20, 1571)>>

\* two horizontal lines with the same rho: zero spacing
SameRho == <<L(10, 0), L(10, 17), L(20, 1571), L(60, 1571)>>

OneLine == <<L(10, 0)>>

\* lines 17 degrees off the axes: only the relaxed tolerance classifies them
Tilted == <<L(0, 300), L(40, 300), L(0, 1871), L(40, 1871)>>

Diagonal == <<L(10, 785), L(20, 785), L(30, 785), L(40, 785)>>

\* two horizontal lines 100 apart and five vertical lines 20 apart: hough
\* confidence 0.3, that of the frequency detector with three peaks
TwoByFive == <<L(0, 0), L(100, 0), L(0, 1571), L(20, 1571), L(40, 1571),
               L(60, 1571), L(80, 1571)>>

HoughInputs == { <<>>, Grid3, Uneven, SameRho, OneLine, Tilted, TwoByFive }

RelaxedInputs == { <<>>, Tilted, OneLine, SameRho, Diagonal }

\* contour means of the opened line images
PositionInputs == { <<>>, <<10, 50>>, <<90, 10, 50>>, <<30, 30, 30>>, <<0, 10, 20>> }

PeakInputs == { <<>>, <<5>>, <<2, 4>>, <<4, 20, 40>> }

AngleInputs == { <<>>, <<0, 90, 0, 90>>, <<0, 45, 90, 30>> }

Blob == [points |-> 40, area |-> 30000, perimeter |-> 640, w |-> 200, h |-> 160,
         major |-> 180, minor |-> 210, hull_area |-> 31000, none |-> FALSE]

Rect == [points |-> 4, area |-> 60000, perimeter |-> 1000, w |-> 301, h |-> 201,
         major |-> 0, minor |-> 0, hull_area |-> 60000, none |-> FALSE]

Speck == [points |-> 6, area |-> 500, perimeter |-> 90, w |-> 30, h |-> 20,
          major |-> 30, minor |-> 20, hull_area |-> 520, none |-> FALSE]

ContourInputs == { NoContour, Blob, Rect, Speck }

EdgeSumInputs == { 0, 1500000 }

(***************************************************************************)
(* State of one call of VisionService.analyze_biopsy_complete.              *)
(***************************************************************************)
VARIABLES
    pc,                \* position in analyze_biopsy_complete and its callees
    image,             \* argument image
    grid_size_mm,      \* argument grid_size_mm
    calibration_data,  \* argument calibration_data
    persp,             \* the call of auto_correct_perspective: inputs and return
    dg,                \* locals of detect_grid_advanced
    grid_info,         \* local grid_info
    sg,                \* locals of segment_biopsy
    segmentation_info, \* local segmentation_info
    result,            \* local result, the dict returned
    rtype,             \* the native types of the values in result
    calls,             \* the functions called so far, in order
    raised,            \* the stage whose exception reached the except clause
    workers,           \* concurrent calls on worker threads: their frames, the
                       \* arrays they were passed and the wall clock
    manager            \* the ConnectionManager and the coroutines calling it

\* the state of one call
locals == <<pc, image, grid_size_mm, calibration_data, persp, dg, grid_info, sg,
            segmentation_info, result, rtype, calls, raised>>

vars == <<pc, image, grid_size_mm, calibration_data, persp, dg, grid_info, sg,
          segmentation_info, result, rtype, calls, raised, workers, manager>>

\* no worker thread is running
NoWorkers == [frame |-> <<>>, arrays |-> <<>>, now |-> 0]

\* ConnectionManager.__init__ (websocket_service.py lines 17-23): no
\* connection, no session, the lock free (0; otherwise the coroutine holding
\* it); no coroutine is running
NoManager ==
    [lock |-> 0, active_connections |-> [k \in {} |-> <<>>],
     active_sessions |-> [k \in {} |-> <<>>], frame |-> <<>>]

NoImage == [width |-> 0, height |-> 0, color |-> FALSE]

NoFallbackCal ==
    [pixels_per_mm |-> Zero, method |-> "", confidence |-> Zero, scenario |-> "",
     warning |-> "", suggestions |-> <<>>]

\* results as detect_grid_advanced initialises it; the has_ fields tell
\* which of the optional keys are present.
InitialGridResults ==
    [grid_detected |-> FALSE, pixels_per_mm |-> Zero,
     grid_lines |-> [horizontal |-> <<>>, vertical |-> <<>>],
     confidence |-> Zero, method_used |-> "", quality_score |-> Zero,
     has_perspective_correction |-> FALSE,
     perspective_correction |-> [corrected |-> FALSE, reason |-> ""],
     has_detection_threshold |-> FALSE, detection_threshold_used |-> Zero,
     has_fallback_info |-> FALSE, calibration_scenario |-> "",
     fallback_info |-> NoFallbackCal]

NoPersp == [stage |-> "none", angles |-> <<>>, corners_found |-> FALSE,
            correct_raises |-> FALSE, corrected_angles |-> <<>>,
            image |-> "original", corrected |-> FALSE, reason |-> ""]

\* method_result: what the detector called last returned; tried: the
\* detectors called so far, in order, each with whether it raised and what it
\* returned (history); lines: the lines cv2.HoughLines found for the hough or
\* relaxed detector called last (history)
NoDg == [idx |-> 0, has_best |-> FALSE, best_result |-> NoEstimate(""),
         best_confidence |-> Zero, gray_w |-> 0, gray_h |-> 0,
         tried_relaxed |-> FALSE, results |-> InitialGridResults,
         method_result |-> NoEstimate(""), tried |-> <<>>, lines |-> <<>>]

\* greatest: the greatest confidence a strategy has returned so far (history)
NoSg == [idx |-> 0, has_best |-> FALSE, best_result |-> NoCandidate(""),
         best_confidence |-> Zero, greatest |-> Zero]

\* results as segment_biopsy initialises it
InitialSegmentation ==
    [biopsy_detected |-> FALSE, contour |-> NoContour, mask |-> "None",
     confidence |-> Zero, method_used |-> "", preprocessing_used |-> <<>>]

InitialResult(img) ==
    [success |-> FALSE, timestamp |-> "analysis_start", processing_time_ms |-> Zero,
     image_info |-> [width |-> img.width, height |-> img.height,
                     channels |-> IF img.color THEN 3 ELSE 2],
     grid_detection |-> EmptyDict, biopsy_segmentation |-> EmptyDict,
     measurements |-> EmptyDict, overlay_image |-> "None",
     confidence_overall |-> Zero, errors |-> <<>>, warnings |-> <<>>]

Init ==
    /\ pc = "idle"
    /\ image = NoImage
    /\ grid_size_mm = Zero
    /\ calibration_data = NoCalibration
    /\ persp = NoPersp
    /\ dg = NoDg
    /\ grid_info = InitialGridResults
    /\ sg = NoSg
    /\ segmentation_info = InitialSegmentation
    /\ result = InitialResult(NoImage)
    /\ rtype = InitialResultType
    /\ calls = <<>>
    /\ raised = ""
    /\ workers = NoWorkers
    /\ manager = NoManager

\* error_msg = f"Erro durante análise: {str(e)}"
ErrorMessage(exc) == [text |-> "Erro durante analise", exception |-> exc]

\* Variant: an except clause that records nothing.
SwallowException(res, exc) == res

\* Variant: an except clause that also discards the data of the stages that
\* completed.
DiscardPartialData(res, exc) ==
    [res EXCEPT !.errors = Append(@, ErrorMessage(exc)),
                !.grid_detection = EmptyDict,
                !.biopsy_segmentation = EmptyDict,
                !.measurements = EmptyDict]

\* the except clause of analyze_biopsy_complete: the message is appended to
\* result['errors']; the numpy safety conversion re-converts three fields
\* that are converted already.
HandleException(res, exc) ==
    [res EXCEPT !.errors = Append(@, ErrorMessage(exc))]

\* Variant: the except clause resumes the pipeline at the segmentation.
ResumeAfterException == "segment"

\* where control goes when a stage raises: the except clause completes and
\* the code after the try runs
AfterException == "finalize"

\* measured time in ms, (datetime.now() - analysis_start) rounded
Elapsed == R(1234, 100)

(***************************************************************************)
(* Entry: lines 960-978.  A malformed image (image.shape fails) raises      *)
(* before the try and the exception reaches the caller.                     *)
(***************************************************************************)
Start ==
    /\ pc = "idle"
    /\ \E img \in Images, g \in GridSizes, cal \in Calibrations :
          /\ image' = img
          /\ grid_size_mm' = g
          /\ calibration_data' = cal
          /\ result' = InitialResult(img)
    /\ rtype' = InitialResultType
    /\ pc' = "grid"
    /\ UNCHANGED <<persp, dg, grid_info, sg, segmentation_info, calls, raised>>
    /\ UNCHANGED <<workers, manager>>

StartMalformed ==
    /\ pc = "idle"
    /\ pc' = "propagated"
    /\ raised' = "precondition"
    /\ UNCHANGED <<image, grid_size_mm, calibration_data, persp, dg, grid_info, sg,
                   segmentation_info, result, rtype, calls>>
    /\ UNCHANGED <<workers, manager>>

(***************************************************************************)
(* Grid stage, manual calibration: lines 985-994.                           *)
(***************************************************************************)
HasManualCalibration(cal) == cal.truthy /\ cal.has_pixels_per_mm

\* Variant: the supplied scale stored with the confidence of an estimate.
ManualGridInfoAsEstimate(cal) ==
    [InitialGridResults EXCEPT
        !.grid_detected = TRUE,
        !.pixels_per_mm = cal.pixels_per_mm,
        !.confidence = R(5, 10),
        !.method_used = "manual",
        !.quality_score = R(5, 10)]

ManualGridInfo(cal) ==
    [InitialGridResults EXCEPT
        !.grid_detected = TRUE,
        !.pixels_per_mm = cal.pixels_per_mm,
        !.confidence = R(9, 10),
        !.method_used = "manual_calibration",
        !.quality_score = R(9, 10)]

UseManualCalibration ==
    /\ pc = "grid"
    /\ HasManualCalibration(calibration_data)
    /\ grid_info' = ManualGridInfo(calibration_data)
    /\ pc' = "store_grid"
    /\ UNCHANGED <<image, grid_size_mm, calibration_data, persp, dg, sg,
                   segmentation_info, result, rtype, calls, raised>>
    /\ UNCHANGED <<workers, manager>>

(***************************************************************************)
(* detect_grid_advanced: lines 164-231.                                     *)
(***************************************************************************)
\* lines 167-172: auto_correct_perspective, any exception of it swallowed
DetectPerspective ==
    /\ pc = "grid"
    /\ ~HasManualCalibration(calibration_data)
    /\ \E angles \in AngleInputs, corners_found \in BOOLEAN, correct_raises \in BOOLEAN,
          corrected_angles \in AngleInputs, fails \in BOOLEAN :
          LET r == auto_correct_perspective(angles, corners_found, correct_raises,
                                            corrected_angles)
          IN  persp' =
                IF fails
                THEN [NoPersp EXCEPT !.stage = "raised",
                                     !.reason = "Error in perspective correction"]
                ELSE [stage |-> "returned", angles |-> angles,
                      corners_found |-> corners_found,
                      correct_raises |-> correct_raises,
                      corrected_angles |-> corrected_angles,
                      image |-> r.image, corrected |-> r.corrected, reason |-> r.reason]
    /\ calls' = Append(calls, "detect_grid_advanced")
    /\ pc' = "preprocess"
    /\ UNCHANGED <<image, grid_size_mm, calibration_data, dg, grid_info, sg,
                   segmentation_info, result, rtype, raised>>
    /\ UNCHANGED <<workers, manager>>

\* lines 174-194: preprocess_image(corrected_image) is outside any try of
\* detect_grid_advanced: if it raises, the exception reaches the except
\* clause of analyze_biopsy_complete.
DetectPreprocess ==
    /\ pc = "preprocess"
    /\ \E raises \in BOOLEAN :
          IF raises
          THEN /\ result' = HandleException(result, "preprocess_image")
               /\ raised' = "grid"
               /\ pc' = AfterException
               /\ dg' = NoDg
          ELSE /\ dg' = [NoDg EXCEPT
                            !.idx = 1,
                            !.gray_w = IF persp.image = "rectified"
                                       THEN RectifiedWidth ELSE image.width,
                            !.gray_h = IF persp.image = "rectified"
                                       THEN RectifiedHeight ELSE image.height,
                            !.results = [InitialGridResults EXCEPT
                                            !.perspective_correction =
                                                [corrected |-> persp.corrected,
                                                 reason |-> persp.reason]]]
               /\ pc' = "detect_methods"
               /\ UNCHANGED <<result, raised>>
    /\ persp' = NoPersp
    /\ UNCHANGED <<image, grid_size_mm, calibration_data, grid_info, sg,
                   segmentation_info, rtype, calls>>
    /\ UNCHANGED <<workers, manager>>

\* lines 196-204, one iteration: a method's result replaces the best one
\* when its confidence is strictly greater; a method that raises is skipped
\* Variant: a result replaces the best one when its confidence is not lower.
TryMethodLaterWinsTie(d, raises, method_result) ==
    LET better == ~raises /\ RGe(method_result.confidence, d.best_confidence)
    IN  [d EXCEPT !.idx = @ + 1,
                  !.method_result = IF raises THEN @ ELSE method_result,
                  !.tried = Append(@, [raised |-> raises,
                                       result |-> IF raises
                                                  THEN NoEstimate(method_result.method_used)
                                                  ELSE method_result]),
                  !.has_best = IF better THEN TRUE ELSE @,
                  !.best_confidence = IF better THEN method_result.confidence ELSE @,
                  !.best_result = IF better THEN method_result ELSE @]

TryMethod(d, raises, method_result) ==
    LET better == ~raises /\ RGt(method_result.confidence, d.best_confidence)
    IN  [d EXCEPT !.idx = @ + 1,
                  !.method_result = IF raises THEN @ ELSE method_result,
                  !.tried = Append(@, [raised |-> raises,
                                       result |-> IF raises
                                                  THEN NoEstimate(method_result.method_used)
                                                  ELSE method_result]),
                  !.has_best = IF better THEN TRUE ELSE @,
                  !.best_confidence = IF better THEN method_result.confidence ELSE @,
                  !.best_result = IF better THEN method_result ELSE @]

RunHough ==
    /\ pc = "detect_methods" /\ dg.idx = 1
    /\ \E lines \in HoughInputs, raises \in BOOLEAN :
          dg' = [TryMethod(dg, raises, detect_grid_hough(lines, grid_size_mm))
                    EXCEPT !.lines = lines]
    /\ UNCHANGED <<pc, image, grid_size_mm, calibration_data, persp, grid_info, sg,
                   segmentation_info, result, rtype, calls, raised>>
    /\ UNCHANGED <<workers, manager>>

RunMorphological ==
    /\ pc = "detect_methods" /\ dg.idx = 2
    /\ \E h_positions \in PositionInputs, v_positions \in PositionInputs,
          raises \in BOOLEAN :
          dg' = TryMethod(dg, raises,
                          detect_grid_morphological(h_positions, v_positions, grid_size_mm))
    /\ UNCHANGED <<pc, image, grid_size_mm, calibration_data, persp, grid_info, sg,
                   segmentation_info, result, rtype, calls, raised>>
    /\ UNCHANGED <<workers, manager>>

RunFrequency ==
    /\ pc = "detect_methods" /\ dg.idx = 3
    \* the whole body of _detect_grid_frequency is inside its own try
    /\ \E h_peaks \in PeakInputs, v_peaks \in PeakInputs, inner \in BOOLEAN :
          dg' = TryMethod(dg, FALSE,
                          detect_grid_frequency(h_peaks, v_peaks, dg.gray_w, dg.gray_h,
                                                inner, grid_size_mm))
    /\ pc' = "detect_threshold"
    /\ UNCHANGED <<image, grid_size_mm, calibration_data, persp, grid_info, sg,
                   segmentation_info, result, rtype, calls, raised>>
    /\ UNCHANGED <<workers, manager>>

\* results.update(method_result): the keys the detector returned
UpdateResults(results, r) ==
    IF r.has_estimate
    THEN [results EXCEPT !.confidence = r.confidence, !.method_used = r.method_used,
                         !.pixels_per_mm = r.pixels_per_mm,
                         !.grid_lines = r.grid_lines,
                         !.quality_score = r.quality_score]
    ELSE [results EXCEPT !.confidence = r.confidence, !.method_used = r.method_used]

\* Variant: the ladder tried from the most permissive threshold upwards.
thresholds_ascending == <<R(2, 10), R(3, 10), R(5, 10), R(7, 10)>>

thresholds == <<R(7, 10), R(5, 10), R(3, 10), R(2, 10)>>

\* lines 209-215: the index of the first threshold the confidence exceeds,
\* 0 when there is none
RECURSIVE FirstThreshold(_, _, _)
FirstThreshold(has_best, best_confidence, i) ==
    IF i > Len(thresholds) THEN 0
    ELSE IF has_best /\ RGt(best_confidence, thresholds[i]) THEN i
    ELSE FirstThreshold(has_best, best_confidence, i + 1)

Accept(results, r, threshold) ==
    [UpdateResults(results, r) EXCEPT
        !.grid_detected = TRUE,
        !.has_perspective_correction = TRUE,
        !.has_detection_threshold = TRUE,
        !.detection_threshold_used = threshold]

\* what detect_grid_advanced returns when it gives up: the initial results,
\* without the 'perspective_correction' key
NotDetected(results) ==
    [results EXCEPT !.perspective_correction = [corrected |-> FALSE, reason |-> ""]]

ApplyThresholds ==
    /\ pc = "detect_threshold"
    /\ LET t == FirstThreshold(dg.has_best, dg.best_confidence, 1)
       IN  IF t > 0
           THEN /\ grid_info' = Accept(dg.results, dg.best_result, thresholds[t])
                /\ dg' = NoDg
                /\ pc' = "grid_returned"
           ELSE /\ dg' = [dg EXCEPT !.tried_relaxed = TRUE]
                /\ pc' = "detect_relaxed"
                /\ UNCHANGED grid_info
    /\ UNCHANGED <<image, grid_size_mm, calibration_data, persp, sg,
                   segmentation_info, result, rtype, calls, raised>>
    /\ UNCHANGED <<workers, manager>>

\* Variant: the relaxed result held to the lowest threshold of the ladder.
RelaxedFloorOfLadder == R(2, 10)

RelaxedFloor == R(1, 10)

\* lines 218-231; raises: an exception _detect_grid_relaxed swallows itself
RunRelaxed ==
    /\ pc = "detect_relaxed"
    /\ \E lines \in RelaxedInputs, raises \in BOOLEAN :
          LET relaxed_result == detect_grid_relaxed(lines, raises, grid_size_mm)
          IN  /\ grid_info' =
                    IF RGt(relaxed_result.confidence, RelaxedFloor)
                    THEN Accept(dg.results, relaxed_result, RelaxedFloor)
                    ELSE NotDetected(dg.results)
              /\ dg' = [NoDg EXCEPT !.method_result = relaxed_result,
                                    !.lines = lines]
    /\ pc' = "grid_returned"
    /\ UNCHANGED <<image, grid_size_mm, calibration_data, persp, sg,
                   segmentation_info, result, rtype, calls, raised>>
    /\ UNCHANGED <<workers, manager>>

(***************************************************************************)
(* Grid stage after detect_grid_advanced returned: lines 999-1033.          *)
(***************************************************************************)
FallbackGridInfo(fallback_cal) ==
    [InitialGridResults EXCEPT
        !.grid_detected = TRUE,
        !.pixels_per_mm = fallback_cal.pixels_per_mm,
        !.confidence = fallback_cal.confidence,
        !.method_used = fallback_cal.method,
        !.quality_score = fallback_cal.confidence,
        !.has_fallback_info = TRUE,
        !.calibration_scenario = fallback_cal.scenario,
        !.fallback_info = fallback_cal]

\* Variant: the fallback's warning is not surfaced.
NoFallbackWarnings(fallback_cal) == <<>>

FallbackWarnings(fallback_cal) == <<fallback_cal.warning>> \o fallback_cal.suggestions

GridDetected ==
    /\ pc = "grid_returned"
    /\ grid_info.grid_detected
    /\ dg' = NoDg
    /\ pc' = "store_grid"
    /\ UNCHANGED <<image, grid_size_mm, calibration_data, persp, grid_info, sg,
                   segmentation_info, result, rtype, calls, raised>>
    /\ UNCHANGED <<workers, manager>>

FallbackCalibration ==
    /\ pc = "grid_returned"
    /\ ~grid_info.grid_detected
    /\ \E raises \in BOOLEAN :
          LET fallback_cal ==
                IF raises THEN emergency_fallback(image.width, image.height)
                ELSE get_fallback_calibration(image.width, image.height, grid_size_mm)
          IN  /\ grid_info' = FallbackGridInfo(fallback_cal)
              /\ result' = [result EXCEPT
                               !.warnings = @ \o FallbackWarnings(fallback_cal)]
              /\ rtype' = SetKey(rtype, "warnings",
                                 ListOf([i \in 1..Len(FallbackWarnings(fallback_cal)) |->
                                            Leaf("str")]))
    /\ calls' = Append(calls, "get_fallback_calibration")
    /\ dg' = NoDg
    /\ pc' = "store_grid"
    /\ UNCHANGED <<image, grid_size_mm, calibration_data, persp, sg,
                   segmentation_info, raised>>
    /\ UNCHANGED <<workers, manager>>

\* lines 1035-1037
StoreGrid ==
    /\ pc = "store_grid"
    /\ result' = [result EXCEPT !.grid_detection = grid_info]
    /\ rtype' = SetKey(rtype, "grid_detection",
                       convert_numpy_types(GridInfoType(grid_info)))
    /\ pc' = "segment"
    /\ UNCHANGED <<image, grid_size_mm, calibration_data, persp, dg, grid_info, sg,
                   segmentation_info, calls, raised>>
    /\ UNCHANGED <<workers, manager>>

(***************************************************************************)
(* segment_biopsy: lines 507-552, called at line 1041.                      *)
(***************************************************************************)
\* line 510: preprocess_image(image) is outside the try of the loop
SegmentPreprocess ==
    /\ pc = "segment"
    /\ calls' = Append(calls, "segment_biopsy")
    /\ \E raises \in BOOLEAN :
          IF raises
          THEN /\ result' = HandleException(result, "segment_biopsy")
               /\ raised' = "segmentation"
               /\ pc' = AfterException
               /\ UNCHANGED sg
          ELSE /\ sg' = [NoSg EXCEPT !.idx = 1]
               /\ pc' = "segment_loop"
               /\ UNCHANGED <<result, raised>>
    /\ UNCHANGED <<image, grid_size_mm, calibration_data, persp, dg, grid_info,
                   segmentation_info, rtype>>
    /\ UNCHANGED <<workers, manager>>

MethodOf(idx) == Methods[((idx - 1) \div Len(Variants)) + 1]

VariantOf(idx) == Variants[((idx - 1) % Len(Variants)) + 1]

\* method(preproc_image, image) for the strategy of this iteration
RunStrategy(method, contour, edge_sum, img) ==
    LET total_area == img.height * img.width
    IN  CASE method = "watershed" -> segment_watershed(contour, total_area)
          [] method = "adaptive_threshold" -> segment_adaptive_threshold(contour, total_area)
          [] method = "color_based" -> segment_color_based(contour, total_area, img.color)
          [] method = "edge_based" -> segment_edge_based(contour, total_area, edge_sum)

\* Variant: every candidate that did not raise replaces the best one.
TryStrategyKeepLast(s, raises, method_result, variant) ==
    [s EXCEPT !.idx = @ + 1,
              !.has_best = IF raises THEN @ ELSE TRUE,
              !.best_confidence = IF raises THEN @ ELSE method_result.confidence,
              !.best_result = IF raises THEN @
                              ELSE [method_result EXCEPT
                                       !.preprocessing_used = <<variant>>]]

\* the greatest confidence returned so far, after one more strategy call
Greatest(greatest, raises, method_result) ==
    IF ~raises /\ RGe(method_result.confidence, greatest)
    THEN method_result.confidence ELSE greatest

\* lines 537-546, one iteration
TryStrategy(s, raises, method_result, variant) ==
    LET better == ~raises /\ RGt(method_result.confidence, s.best_confidence)
    IN  [s EXCEPT !.idx = @ + 1,
                  !.has_best = IF better THEN TRUE ELSE @,
                  !.best_confidence = IF better THEN method_result.confidence ELSE @,
                  !.best_result = IF better
                                  THEN [method_result EXCEPT
                                           !.preprocessing_used = <<variant>>]
                                  ELSE @]

SegmentTry ==
    /\ pc = "segment_loop"
    /\ sg.idx <= Len(Methods) * Len(Variants)
    /\ \E contour \in ContourInputs, edge_sum \in EdgeSumInputs, raises \in BOOLEAN :
          LET method_result == RunStrategy(MethodOf(sg.idx), contour, edge_sum, image)
          IN  sg' = [TryStrategy(sg, raises, method_result, VariantOf(sg.idx)) EXCEPT
                        !.greatest = Greatest(sg.greatest, raises, method_result)]
    /\ UNCHANGED <<pc, image, grid_size_mm, calibration_data, persp, dg, grid_info,
                   segmentation_info, result, rtype, calls, raised>>
    /\ UNCHANGED <<workers, manager>>

\* Variant: the acceptance threshold below the cap of the edge-based strategy.
AcceptanceThresholdBelowCap == R(49, 100)

AcceptanceThreshold == R(5, 10)

\* lines 548-552
SegmentationResults(s) ==
    IF s.has_best /\ RGt(s.best_confidence, AcceptanceThreshold)
    THEN [biopsy_detected |-> TRUE,
          contour |-> s.best_result.contour,
          mask |-> IF s.best_result.has_contour THEN "ndarray" ELSE "None",
          confidence |-> s.best_result.confidence,
          method_used |-> s.best_result.method_used,
          preprocessing_used |-> s.best_result.preprocessing_used]
    ELSE InitialSegmentation

\* Variant: the summary keeps every key of the segmentation dict.
SegmentationUnstripped(info) ==
    [k \in DOMAIN info \cup {"contour_points"} |->
        IF k = "contour_points" THEN I(info.contour.points) ELSE info[k]]

\* lines 1044-1046
SegmentationForApi(info) ==
    [k \in (DOMAIN info \ {"contour", "mask"}) \cup {"contour_points"} |->
        IF k = "contour_points" THEN I(info.contour.points) ELSE info[k]]

\* lines 548-552 and 1041-1050: segment_biopsy returns, its summary is stored
SegmentReturn ==
    /\ pc = "segment_loop"
    /\ sg.idx > Len(Methods) * Len(Variants)
    /\ LET info == SegmentationResults(sg)
       IN  /\ segmentation_info' = info
           /\ result' = [result EXCEPT !.biopsy_segmentation = SegmentationForApi(info)]
           /\ rtype' = SetKey(rtype, "biopsy_segmentation",
                              convert_numpy_types(
                                  WithoutContourAndMask(SegmentationInfoType(info))))
           /\ pc' = IF info.biopsy_detected THEN "measure" ELSE "no_sample"
    /\ sg' = NoSg
    /\ UNCHANGED <<image, grid_size_mm, calibration_data, persp, dg, grid_info,
                   calls, raised>>
    /\ UNCHANGED <<workers, manager>>

(***************************************************************************)
(* No sample detected: lines 1052-1081.                                     *)
(***************************************************************************)
NoSampleWarning == "Biopsia nao detectada automaticamente - calibracao ainda disponivel"

NoSampleMeasurements(info) ==
    [area_mm2 |-> Zero, length_max_mm |-> Zero, width_max_mm |-> Zero,
     pixels_per_mm |-> info.pixels_per_mm,
     calibration_available |-> TRUE, manual_measurement_possible |-> TRUE]

\* Variant: the no-sample block without line 1062.
NoSampleResultFailing(res, info) ==
    [res EXCEPT !.warnings = Append(@, NoSampleWarning),
                !.measurements = NoSampleMeasurements(info),
                !.confidence_overall = RMul(info.confidence, R(5, 10))]

\* lines 1053-1063: the warning, the zero measurements, success and the
\* confidence are set before the overlay is rendered
NoSampleResult(res, info) ==
    [res EXCEPT !.warnings = Append(@, NoSampleWarning),
                !.measurements = NoSampleMeasurements(info),
                !.success = TRUE,
                !.confidence_overall = RMul(info.confidence, R(5, 10))]

WarningsType(res) == ListOf([i \in 1..Len(res.warnings) |-> Leaf("str")])

ErrorsType(res) == ListOf([i \in 1..Len(res.errors) |-> Leaf("str")])

\* raises: rendering or encoding the calibration-only overlay (lines
\* 1066-1075) raises; the except clause runs and the function returns at
\* line 1160.  Otherwise the function returns at line 1081.
NoSample ==
    /\ pc = "no_sample"
    /\ \E raises \in BOOLEAN :
          LET r1 == NoSampleResult(result, grid_info)
              t1 == SetKey(SetKey(SetKey(SetKey(rtype,
                        "warnings", WarningsType(r1)),
                        "measurements", NoSampleMeasurementsType),
                        "success", Leaf("bool")),
                        "confidence_overall", Leaf("float"))
          IN  IF raises
              THEN /\ result' = HandleException(r1, "calibration_overlay")
                   /\ rtype' = t1
                   /\ raised' = "no_sample_overlay"
                   /\ pc' = AfterException
                   /\ UNCHANGED calls
              ELSE /\ result' = [r1 EXCEPT !.overlay_image = "calibration_overlay",
                                           !.processing_time_ms = Round(Elapsed, 2)]
                   /\ rtype' = convert_numpy_types(
                                   SetKey(SetKey(t1, "overlay_image", Leaf("str")),
                                          "processing_time_ms", Leaf("float")))
                   /\ calls' = Append(calls, "convert_numpy_types")
                   /\ pc' = "done"
                   /\ UNCHANGED raised
    /\ UNCHANGED <<image, grid_size_mm, calibration_data, persp, dg, grid_info, sg,
                   segmentation_info>>
    /\ UNCHANGED <<workers, manager>>

(***************************************************************************)
(* Sample detected: lines 1083-1121.                                        *)
(***************************************************************************)
\* raises: an exception of an OpenCV call inside calculate_measurements
Measure ==
    /\ pc = "measure"
    /\ calls' = Append(calls, "calculate_measurements")
    /\ \E raises \in BOOLEAN :
          IF raises \/ calculate_measurements_raises(segmentation_info.contour,
                                                     grid_info.pixels_per_mm)
          THEN /\ result' = HandleException(result, "calculate_measurements")
               /\ raised' = "measurement"
               /\ pc' = AfterException
               /\ UNCHANGED rtype
          ELSE /\ result' = [result EXCEPT !.measurements =
                                calculate_measurements(segmentation_info.contour,
                                                       grid_info.pixels_per_mm)]
               /\ rtype' = SetKey(rtype, "measurements",
                                  convert_numpy_types(MeasurementsType(grid_info)))
               /\ pc' = "overlay"
               /\ UNCHANGED raised
    /\ UNCHANGED <<image, grid_size_mm, calibration_data, persp, dg, grid_info, sg,
                   segmentation_info>>
    /\ UNCHANGED <<workers, manager>>

\* lines 1095-1105
Overlay ==
    /\ pc = "overlay"
    /\ calls' = Append(calls, "create_analysis_overlay")
    /\ \E raises \in BOOLEAN :
          IF raises
          THEN /\ result' = HandleException(result, "create_analysis_overlay")
               /\ raised' = "overlay"
               /\ pc' = AfterException
               /\ UNCHANGED rtype
          ELSE /\ result' = [result EXCEPT !.overlay_image = "analysis_overlay"]
               /\ rtype' = SetKey(rtype, "overlay_image", Leaf("str"))
               /\ pc' = "confidence"
               /\ UNCHANGED raised
    /\ UNCHANGED <<image, grid_size_mm, calibration_data, persp, dg, grid_info, sg,
                   segmentation_info>>
    /\ UNCHANGED <<workers, manager>>

\* 'fallback' in grid_info.get('method_used', '')
\* the method tags the grid stage can produce
MethodTags == {"", "hough", "morphological", "frequency", "relaxed_fallback",
               "manual_calibration", "typical_scenario", "emergency_estimation",
               "emergency_fallback"}

\* the tags of MethodTags that have the substring 'fallback'
UsedFallback(method_used) ==
    method_used \in {"relaxed_fallback", "emergency_fallback"}

\* lines 1108-1115
OverallConfidence(grid, seg) ==
    IF UsedFallback(grid.method_used)
    THEN RAdd(RMul(grid.confidence, R(7, 10)), RMul(seg.confidence, R(3, 10)))
    ELSE NpDiv(RAdd(grid.confidence, seg.confidence), I(2))

\* lines 1107-1121
Confidence ==
    /\ pc = "confidence"
    /\ result' = [result EXCEPT
                     !.confidence_overall = OverallConfidence(grid_info, segmentation_info),
                     !.success = TRUE]
    /\ rtype' = SetKey(rtype, "confidence_overall", Leaf("float"))
    /\ pc' = "finalize"
    /\ UNCHANGED <<image, grid_size_mm, calibration_data, persp, dg, grid_info, sg,
                   segmentation_info, calls, raised>>
    /\ UNCHANGED <<workers, manager>>

\* lines 1140-1160: the processing time, then the whole result is converted
\* twice and returned
Finalize ==
    /\ pc = "finalize"
    /\ result' = [result EXCEPT !.processing_time_ms = Round(Elapsed, 2)]
    /\ rtype' = convert_numpy_types(convert_numpy_types(
                    SetKey(SetKey(rtype, "processing_time_ms", Leaf("float")),
                           "errors", ErrorsType(result))))
    /\ calls' = calls \o <<"convert_numpy_types", "convert_numpy_types">>
    /\ pc' = "done"
    /\ UNCHANGED <<image, grid_size_mm, calibration_data, persp, dg, grid_info, sg,
                   segmentation_info, raised>>
    /\ UNCHANGED <<workers, manager>>

Next ==
    \/ Start
    \/ StartMalformed
    \/ UseManualCalibration
    \/ DetectPerspective
    \/ DetectPreprocess
    \/ RunHough
    \/ RunMorphological
    \/ RunFrequency
    \/ ApplyThresholds
    \/ RunRelaxed
    \/ GridDetected
    \/ FallbackCalibration
    \/ StoreGrid
    \/ SegmentPreprocess
    \/ SegmentTry
    \/ SegmentReturn
    \/ NoSample
    \/ Measure
    \/ Overlay
    \/ Confidence
    \/ Finalize

Spec == Init /\ [][Next]_vars

(***************************************************************************)
(* Direct calls of the static helpers, one call per behaviour.  The caller  *)
(* is at pc = "caller"; the arguments and the returned value are kept in    *)
(* the variables analyze_biopsy_complete uses for them: the contour in      *)
(* segmentation_info.contour, the scale in grid_info.pixels_per_mm, the     *)
(* measurements in result.measurements, the image in image, a calibration   *)
(* in grid_info.fallback_info.                                              *)
(***************************************************************************)
\* a contour of one point; cv2.boundingRect gives a 1 x 1 box
Point == [points |-> 1, area |-> 0, perimeter |-> 0, w |-> 1, h |-> 1,
          major |-> 0, minor |-> 0, hull_area |-> 0, none |-> FALSE]

\* five times the same point: zero perimeter, an ellipse of zero axes
Collapsed == [points |-> 5, area |-> 0, perimeter |-> 0, w |-> 1, h |-> 1,
              major |-> 0, minor |-> 0, hull_area |-> 0, none |-> FALSE]

\* two distinct points: a positive perimeter around no area
Segment == [points |-> 2, area |-> 0, perimeter |-> 20, w |-> 11, h |-> 1,
            major |-> 0, minor |-> 0, hull_area |-> 0, none |-> FALSE]

\* an array of no points
EmptyArray == [NoContour EXCEPT !.none = FALSE]

MeasuredContours == { NoContour, EmptyArray, Point, Collapsed, Segment, Blob, Rect, Speck }

Scales == { I(0), I(1), I(5), I(10), I(25), I(30), I(40), I(60), I(80), I(100),
            I(150), R(77, 2) }

ImageWidths == { 100, 640, 800, 999, 1000, 1500, 2000, 3000, 4000, 4800, 6000,
                 10000, 12000, 20000, 23999, 24000, 27000, 30000, 30001 }

CallInit ==
    /\ pc = "caller"
    /\ image = NoImage
    /\ grid_size_mm = Zero
    /\ calibration_data = NoCalibration
    /\ persp = NoPersp
    /\ dg = NoDg
    /\ grid_info = InitialGridResults
    /\ sg = NoSg
    /\ segmentation_info = InitialSegmentation
    /\ result = InitialResult(NoImage)
    /\ rtype = InitialResultType
    /\ calls = <<>>
    /\ raised = ""
    /\ workers = NoWorkers
    /\ manager = NoManager

\* VisionService.calculate_measurements(contour, pixels_per_mm)
CallCalculateMeasurements ==
    /\ pc = "caller"
    /\ \E contour \in MeasuredContours, pixels_per_mm \in Scales :
          /\ segmentation_info' = [segmentation_info EXCEPT !.contour = contour]
          /\ grid_info' = [grid_info EXCEPT !.pixels_per_mm = pixels_per_mm]
          /\ IF calculate_measurements_raises(contour, pixels_per_mm)
             THEN /\ raised' = "calculate_measurements"
                  /\ pc' = "propagated"
                  /\ UNCHANGED result
             ELSE /\ result' = [result EXCEPT !.measurements =
                                   calculate_measurements(contour, pixels_per_mm)]
                  /\ pc' = "returned"
                  /\ UNCHANGED raised
    /\ calls' = <<"calculate_measurements">>
    /\ UNCHANGED <<image, grid_size_mm, calibration_data, persp, dg, sg, rtype>>
    /\ UNCHANGED <<workers, manager>>

\* CalibrationHelper.create_emergency_calibration(image, grid_size_mm)
CallCreateEmergencyCalibration ==
    /\ pc = "caller"
    /\ \E width \in ImageWidths, g \in GridSizes :
          /\ image' = [width |-> width, height |-> (width * 3) \div 4, color |-> TRUE]
          /\ grid_size_mm' = g
          /\ grid_info' = [grid_info EXCEPT
                              !.fallback_info = create_emergency_calibration(width, g)]
    /\ calls' = <<"create_emergency_calibration">>
    /\ pc' = "returned"
    /\ UNCHANGED <<calibration_data, persp, dg, sg, segmentation_info, result, rtype,
                   raised>>
    /\ UNCHANGED <<workers, manager>>

CallNext ==
    \/ CallCalculateMeasurements
    \/ CallCreateEmergencyCalibration

CallSpec == CallInit /\ [][CallNext]_vars

(***************************************************************************)
(* Concurrent calls of analyze_biopsy_complete, one per worker thread.      *)
(* workers.frame[t] holds the locals of call t, workers.arrays the ndarray  *)
(* objects the callers hold (two calls may be passed the same object) and   *)
(* workers.now the wall clock, which advances by one tick with every stage  *)
(* any thread runs.  A thread can be preempted between any two stages.      *)
(* What OpenCV computes is a function of the pixel data of the array it is  *)
(* given.                                                                   *)
(***************************************************************************)
\* the two calls, one per worker thread
Invocations == {1, 2}

\* the arrays the callers hold before any call: a scene with grid and
\* sample, one with a sample on a plain background, one with the grid only
InitialArrays ==
    << [width |-> 800, height |-> 600, color |-> TRUE, pixels |-> "grid_and_sample"],
       [width |-> 800, height |-> 600, color |-> TRUE, pixels |-> "sample"],
       [width |-> 800, height |-> 600, color |-> TRUE, pixels |-> "grid"] >>

WorkerCalibrations ==
    { NoCalibration,
      [truthy |-> TRUE, has_pixels_per_mm |-> TRUE, pixels_per_mm |-> I(40)],
      [truthy |-> TRUE, has_pixels_per_mm |-> TRUE, pixels_per_mm |-> Zero] }

\* cv2.HoughLines on the preprocessed pixel data; "annotated": the data
\* with the overlay drawn on it
HoughLinesOf(pixels) ==
    CASE pixels \in {"grid_and_sample", "grid"} -> Grid3
      [] pixels = "annotated" -> Uneven
      [] OTHER -> <<>>

\* the largest contour cv2.findContours gives a strategy
LargestContourOf(pixels) ==
    CASE pixels \in {"grid_and_sample", "sample"} -> Blob
      [] pixels = "annotated" -> Rect
      [] OTHER -> NoContour

\* detect_grid_advanced(image, grid_size_mm), lines 164-231, on scenes where
\* the Hough detector alone finds lines
DetectGridOn(img, g) ==
    LET d == TryMethod([NoDg EXCEPT !.idx = 1], FALSE,
                       detect_grid_hough(HoughLinesOf(img.pixels), g))
        t == FirstThreshold(d.has_best, d.best_confidence, 1)
    IN  IF t > 0 THEN Accept(InitialGridResults, d.best_result, thresholds[t])
        ELSE NotDetected(InitialGridResults)

\* segment_biopsy(image), lines 507-552, on scenes where the first strategy
\* gives the best candidate
SegmentBiopsyOn(img) ==
    SegmentationResults(
        TryStrategy([NoSg EXCEPT !.idx = 1], FALSE,
                    RunStrategy(MethodOf(1), LargestContourOf(img.pixels), 0, img),
                    VariantOf(1)))

\* the locals of a call that has not started
IdleFrame ==
    [pc |-> "idle", image |-> 0, calibration_data |-> NoCalibration,
     analysis_start |-> 0, grid_info |-> InitialGridResults,
     segmentation_info |-> InitialSegmentation,
     result |-> InitialResult(NoImage), raised |-> ""]

\* lines 960-978: the clock is read and result is initialised
EnterFrame(array, img, cal, now) ==
    [IdleFrame EXCEPT
        !.pc = "grid", !.image = array, !.calibration_data = cal,
        !.analysis_start = now,
        !.result = [InitialResult(img) EXCEPT !.timestamp = now]]

\* (datetime.now() - analysis_start) in ms, rounded
ProcessingTime(f, now) == Round(I(now - f.analysis_start), 2)

\* lines 1035-1037: grid_info is stored in result, then segmentation follows
WithGrid(f, info, warnings) ==
    [f EXCEPT !.pc = "segment",
              !.grid_info = info,
              !.result = [@ EXCEPT !.warnings = @ \o warnings,
                                   !.grid_detection = info]]

\* lines 996-1031: what detect_grid_advanced returned is kept if a grid was
\* detected, the fallback calibration replaces it otherwise
WithDetection(f, img, detected) ==
    IF detected.grid_detected THEN WithGrid(f, detected, <<>>)
    ELSE LET fallback_cal == get_fallback_calibration(img.width, img.height, I(10))
         IN  WithGrid(f, FallbackGridInfo(fallback_cal), FallbackWarnings(fallback_cal))

\* the grid stage, lines 980-1037
GridStageOf(f, img) ==
    IF HasManualCalibration(f.calibration_data)
    THEN WithGrid(f, ManualGridInfo(f.calibration_data), <<>>)
    ELSE WithDetection(f, img, DetectGridOn(img, I(10)))

\* lines 1041-1050: segment_biopsy, its summary stored in result
SegmentationStageOf(f, img) ==
    LET info == SegmentBiopsyOn(img)
    IN  [f EXCEPT
           !.pc = IF info.biopsy_detected THEN "measure" ELSE "no_sample",
           !.segmentation_info = info,
           !.result = [@ EXCEPT !.biopsy_segmentation = SegmentationForApi(info)]]

\* lines 1052-1081: the calibration-only result, returned early
NoSampleStageOf(f, now) ==
    [f EXCEPT
       !.pc = "done",
       !.result = [NoSampleResult(@, f.grid_info) EXCEPT
                      !.overlay_image = "calibration_overlay",
                      !.processing_time_ms = ProcessingTime(f, now)]]

\* lines 1085-1091
MeasurementStageOf(f) ==
    IF calculate_measurements_raises(f.segmentation_info.contour,
                                     f.grid_info.pixels_per_mm)
    THEN [f EXCEPT !.pc = AfterException,
                   !.raised = "measurement",
                   !.result = HandleException(@, "calculate_measurements")]
    ELSE [f EXCEPT
            !.pc = "overlay",
            !.result = [@ EXCEPT !.measurements =
                           calculate_measurements(f.segmentation_info.contour,
                                                  f.grid_info.pixels_per_mm)]]

\* lines 1095-1105
OverlayStageOf(f) ==
    [f EXCEPT !.pc = "confidence",
              !.result = [@ EXCEPT !.overlay_image = "analysis_overlay"]]

\* lines 1107-1121
ConfidenceStageOf(f) ==
    [f EXCEPT
       !.pc = "finalize",
       !.result = [@ EXCEPT
                      !.confidence_overall =
                          OverallConfidence(f.grid_info, f.segmentation_info),
                      !.success = TRUE]]

\* lines 1140-1160
FinalizeStageOf(f, now) ==
    [f EXCEPT !.pc = "done",
              !.result = [@ EXCEPT !.processing_time_ms = ProcessingTime(f, now)]]

\* The stage of analyze_biopsy_complete at f.pc, run on the locals f at
\* clock now; img is the pixel data the argument array holds at that time.
RunStage(f, img, now) ==
    CASE f.pc = "grid" -> GridStageOf(f, img)
      [] f.pc = "segment" -> SegmentationStageOf(f, img)
      [] f.pc = "no_sample" -> NoSampleStageOf(f, now)
      [] f.pc = "measure" -> MeasurementStageOf(f)
      [] f.pc = "overlay" -> OverlayStageOf(f)
      [] f.pc = "confidence" -> ConfidenceStageOf(f)
      [] f.pc = "finalize" -> FinalizeStageOf(f, now)
      [] OTHER -> f

\* Variant: the overlay is drawn on the argument array itself.
DrawnInPlace(arrays, array) == [arrays EXCEPT ![array].pixels = "annotated"]

\* lines 855, 1066: overlay = image.copy(); the drawing calls write to the
\* copy, the argument array keeps its pixel data
DrawnOnCopy(arrays, array) == arrays

\* perspective_correction.py lines 29-30, detect_grid_corners:
\* image_corners = image.copy(), the corners are marked on the copy
CornersMarkedOnCopy(arrays, array) == arrays

\* Variant: 'original' and 'gray' are the argument array, which the filters
\* then overwrite.
PreprocessedInPlace(arrays, array) == [arrays EXCEPT ![array].pixels = "enhanced"]

\* lines 123-161, preprocess_image: 'original' is image.copy(), 'gray' is a
\* conversion or a copy, every filter returns a new array
PreprocessedOnCopies(arrays, array) == arrays

\* what the stage at f.pc leaves in the caller's arrays: the grid stage
\* without a manual calibration runs detect_grid_corners and
\* preprocess_image, the segmentation runs preprocess_image, the no-sample
\* block and create_analysis_overlay draw
ArraysAfter(f, arrays) ==
    CASE f.pc \in {"no_sample", "overlay"} -> DrawnOnCopy(arrays, f.image)
      [] f.pc = "grid" /\ ~HasManualCalibration(f.calibration_data) ->
            PreprocessedOnCopies(CornersMarkedOnCopy(arrays, f.image), f.image)
      [] f.pc = "segment" -> PreprocessedOnCopies(arrays, f.image)
      [] OTHER -> arrays

RECURSIVE RunToEnd(_, _, _)
\* the call run alone: no other thread runs between its stages
RunToEnd(f, arrays, now) ==
    IF f.pc = "done" THEN f
    ELSE RunToEnd(RunStage(f, arrays[f.image], now), ArraysAfter(f, arrays), now + 1)

\* the frame in which analyze_biopsy_complete(array, 10.0, cal) returns when
\* it is called at clock now and runs alone
AnalyzeAlone(array, cal, now) ==
    RunToEnd(EnterFrame(array, InitialArrays[array], cal, now), InitialArrays, now + 1)

WorkersInit ==
    /\ pc = "threads"
    /\ image = NoImage
    /\ grid_size_mm = Zero
    /\ calibration_data = NoCalibration
    /\ persp = NoPersp
    /\ dg = NoDg
    /\ grid_info = InitialGridResults
    /\ sg = NoSg
    /\ segmentation_info = InitialSegmentation
    /\ result = InitialResult(NoImage)
    /\ rtype = InitialResultType
    /\ calls = <<>>
    /\ raised = ""
    /\ workers = [frame |-> [t \in Invocations |-> IdleFrame],
                  arrays |-> InitialArrays, now |-> 0]
    /\ manager = NoManager

\* thread t calls analyze_biopsy_complete
Invoke(t) ==
    /\ workers.frame[t].pc = "idle"
    /\ \E array \in DOMAIN workers.arrays, cal \in WorkerCalibrations :
          workers' = [workers EXCEPT
                         !.frame[t] = EnterFrame(array, workers.arrays[array], cal,
                                                 workers.now),
                         !.now = @ + 1]
    /\ UNCHANGED <<locals, manager>>

\* thread t has run a stage that left its locals as next; the clock ticks
Advance(t, next) ==
    workers' = [workers EXCEPT !.frame[t] = next,
                               !.arrays = ArraysAfter(workers.frame[t], @),
                               !.now = @ + 1]

GridStage(t) ==
    /\ workers.frame[t].pc = "grid"
    /\ Advance(t, GridStageOf(workers.frame[t], workers.arrays[workers.frame[t].image]))
    /\ UNCHANGED <<locals, manager>>

SegmentationStage(t) ==
    /\ workers.frame[t].pc = "segment"
    /\ Advance(t, SegmentationStageOf(workers.frame[t], workers.arrays[workers.frame[t].image]))
    /\ UNCHANGED <<locals, manager>>

NoSampleStage(t) ==
    /\ workers.frame[t].pc = "no_sample"
    /\ Advance(t, NoSampleStageOf(workers.frame[t], workers.now))
    /\ UNCHANGED <<locals, manager>>

MeasurementStage(t) ==
    /\ workers.frame[t].pc = "measure"
    /\ Advance(t, MeasurementStageOf(workers.frame[t]))
    /\ UNCHANGED <<locals, manager>>

OverlayStage(t) ==
    /\ workers.frame[t].pc = "overlay"
    /\ Advance(t, OverlayStageOf(workers.frame[t]))
    /\ UNCHANGED <<locals, manager>>

ConfidenceStage(t) ==
    /\ workers.frame[t].pc = "confidence"
    /\ Advance(t, ConfidenceStageOf(workers.frame[t]))
    /\ UNCHANGED <<locals, manager>>

FinalizeStage(t) ==
    /\ workers.frame[t].pc = "finalize"
    /\ Advance(t, FinalizeStageOf(workers.frame[t], workers.now))
    /\ UNCHANGED <<locals, manager>>

WorkersNext ==
    \E t \in Invocations :
        \/ Invoke(t)
        \/ GridStage(t)
        \/ SegmentationStage(t)
        \/ NoSampleStage(t)
        \/ MeasurementStage(t)
        \/ OverlayStage(t)
        \/ ConfidenceStage(t)
        \/ FinalizeStage(t)

WorkersSpec == WorkersInit /\ [][WorkersNext]_vars

(***************************************************************************)
(* ConnectionManager (websocket_service.py) called by the coroutines of one *)
(* event loop.  A coroutine runs until it awaits; "async with self._lock"   *)
(* suspends it while the asyncio.Lock, which is not reentrant, is held, so  *)
(* a block without an await inside is one step taken when the lock is free. *)
(* Handlers are the coroutines of websocket_analysis (api/websocket.py),    *)
(* one per client, the websocket named after its handler; RestCalls are     *)
(* the coroutines of POST /ws/sessions/{session_id}/close.                  *)
(***************************************************************************)
Handlers == {1, 2}

RestCalls == {3}

Coroutines == Handlers \cup RestCalls

SessionIds == {"a", "b"}

\* api/websocket.py line 47: every client is given the same user_id
user_from_token == "user_from_token"

\* what a client sends (websocket.receive_text), or its disconnection
Messages == {"start_vision_analysis", "get_session_status", "WebSocketDisconnect"}

\* session_id: the argument; ret: where send_to_user returns to;
\* connections, disconnected: locals of send_to_user
IdleCoroutine ==
    [pc |-> "idle", session_id |-> "", ret |-> "", connections |-> <<>>,
     disconnected |-> {}]

\* d[key] = value
WithEntry(d, key, value) ==
    [k \in DOMAIN d \cup {key} |-> IF k = key THEN value ELSE d[k]]

\* del d[key]
WithoutEntry(d, key) == [k \in DOMAIN d \ {key} |-> d[k]]

\* the list without the websockets in gone (list.remove of each)
WithoutConnections(connections, gone) ==
    SelectSeq(connections, LAMBDA c : c \notin gone)

ManagerInit ==
    /\ pc = "event_loop"
    /\ image = NoImage
    /\ grid_size_mm = Zero
    /\ calibration_data = NoCalibration
    /\ persp = NoPersp
    /\ dg = NoDg
    /\ grid_info = InitialGridResults
    /\ sg = NoSg
    /\ segmentation_info = InitialSegmentation
    /\ result = InitialResult(NoImage)
    /\ rtype = InitialResultType
    /\ calls = <<>>
    /\ raised = ""
    /\ workers = NoWorkers
    /\ manager = [NoManager EXCEPT !.frame = [t \in Coroutines |-> IdleCoroutine]]

\* api/websocket.py lines 31-52 and connect line 27: a client opens
\* /ws/analysis/{session_id}; the handler awaits websocket.accept()
Open(t) ==
    /\ t \in Handlers
    /\ manager.frame[t].pc = "idle"
    /\ \E session_id \in SessionIds :
          manager' = [manager EXCEPT
                         !.frame[t] = [@ EXCEPT !.pc = "connect",
                                                !.session_id = session_id]]
    /\ UNCHANGED <<locals, workers>>

\* connect, lines 29-58: the websocket is registered and the session created
\* if it does not exist; the welcome message is sent after the lock is
\* released (send_personal_message swallows the exceptions of the send)
Connect(t) ==
    /\ manager.frame[t].pc = "connect"
    /\ manager.lock = 0
    /\ manager' =
          [manager EXCEPT
              !.active_connections =
                  WithEntry(@, user_from_token,
                            Append(IF user_from_token \in DOMAIN @
                                   THEN @[user_from_token] ELSE <<>>, t)),
              !.active_sessions =
                  IF manager.frame[t].session_id \in DOMAIN @ THEN @
                  ELSE WithEntry(@, manager.frame[t].session_id,
                                 [user_id |-> user_from_token, status |-> "connected"]),
              !.frame[t].pc = "serving"]
    /\ UNCHANGED <<locals, workers>>

\* api/websocket.py lines 54-106: the next message of the client; the
\* analysis messages lead to update_progress (WebSocketService.handle_*),
\* a disconnection to the finally clause
Receive(t) ==
    /\ manager.frame[t].pc = "serving"
    /\ \E message \in Messages :
          manager' = [manager EXCEPT
                         !.frame[t].pc =
                             CASE message = "start_vision_analysis" -> "update_progress"
                               [] message = "get_session_status" -> "get_session_status"
                               [] OTHER -> "disconnect",
                         !.frame[t].ret = "serving"]
    /\ UNCHANGED <<locals, workers>>

\* get_session_status, lines 175-178
GetSessionStatus(t) ==
    /\ manager.frame[t].pc = "get_session_status"
    /\ manager.lock = 0
    /\ manager' = [manager EXCEPT !.frame[t].pc = "serving"]
    /\ UNCHANGED <<locals, workers>>

\* where an exception raised in send_to_user, or while its argument is
\* evaluated, leaves the coroutine: inside close_session the lock is released
\* by the async with and the exception leaves the coroutine; in a handler the
\* finally clause of websocket_analysis runs
AfterRaise(m, t) ==
    IF m.frame[t].ret = "release"
    THEN [m EXCEPT !.lock = 0, !.frame[t].pc = "failed"]
    ELSE [m EXCEPT !.frame[t].pc = "disconnect"]

\* where send_to_user returns to: the loop of the handler, or the end of the
\* async with of close_session, which releases the lock
AfterSend(m, t) ==
    IF m.frame[t].ret = "release"
    THEN [m EXCEPT !.lock = 0, !.frame[t].pc = "closed",
                   !.frame[t].connections = <<>>, !.frame[t].disconnected = {}]
    ELSE [m EXCEPT !.frame[t].pc = m.frame[t].ret,
                   !.frame[t].connections = <<>>, !.frame[t].disconnected = {}]

\* update_progress, lines 141-156: the progress is stored under the lock;
\* user_id is bound only if the session exists
UpdateProgress(t) ==
    /\ manager.frame[t].pc = "update_progress"
    /\ manager.lock = 0
    /\ manager' =
          IF manager.frame[t].session_id \in DOMAIN manager.active_sessions
          THEN [manager EXCEPT
                   !.active_sessions[manager.frame[t].session_id].status = "in_progress",
                   !.frame[t].pc = "send_to_user"]
          ELSE AfterRaise(manager, t)
    /\ UNCHANGED <<locals, workers>>

\* send_to_user, lines 83-86: the connections of the user are copied under
\* the lock; connections is bound only if the user has an entry
SendToUser(t) ==
    /\ manager.frame[t].pc = "send_to_user"
    /\ manager.lock = 0
    /\ manager' =
          IF user_from_token \in DOMAIN manager.active_connections
          THEN [manager EXCEPT
                   !.frame[t].connections = manager.active_connections[user_from_token],
                   !.frame[t].pc = "sending"]
          ELSE AfterRaise(manager, t)
    /\ UNCHANGED <<locals, workers>>

\* send_to_user, lines 88-97: the message is sent to each connection; the
\* connections whose send raises are collected in disconnected
Sending(t) ==
    /\ manager.frame[t].pc = "sending"
    /\ \E disconnected \in SUBSET { manager.frame[t].connections[i] :
                                      i \in 1..Len(manager.frame[t].connections) } :
          manager' =
              IF disconnected = {} THEN AfterSend(manager, t)
              ELSE [manager EXCEPT !.frame[t].disconnected = disconnected,
                                   !.frame[t].pc = "remove_disconnected"]
    /\ UNCHANGED <<locals, workers>>

\* send_to_user, lines 99-104: the failed connections are removed under the
\* lock
RemoveDisconnected(t) ==
    /\ manager.frame[t].pc = "remove_disconnected"
    /\ manager.lock = 0
    /\ manager' =
          AfterSend(
              IF user_from_token \in DOMAIN manager.active_connections
              THEN [manager EXCEPT
                       !.active_connections[user_from_token] =
                           WithoutConnections(@, manager.frame[t].disconnected)]
              ELSE manager, t)
    /\ UNCHANGED <<locals, workers>>

\* disconnect, lines 60-71, called by the finally clause of
\* websocket_analysis (line 124)
Disconnect(t) ==
    /\ manager.frame[t].pc = "disconnect"
    /\ manager.lock = 0
    /\ manager' =
          [manager EXCEPT
              !.active_connections =
                  IF user_from_token \notin DOMAIN @ THEN @
                  ELSE IF WithoutConnections(@[user_from_token], {t}) = <<>>
                       THEN WithoutEntry(@, user_from_token)
                       ELSE WithEntry(@, user_from_token,
                                      WithoutConnections(@[user_from_token], {t})),
              !.frame[t].pc = "close_session"]
    /\ UNCHANGED <<locals, workers>>

\* close_session, lines 180-193: under the lock, an existing session is
\* deleted and send_to_user is awaited inside the async with, the lock still
\* held by this coroutine
CloseSession(t) ==
    /\ manager.frame[t].pc = "close_session"
    /\ manager.lock = 0
    /\ manager' =
          IF manager.frame[t].session_id \in DOMAIN manager.active_sessions
          THEN [manager EXCEPT
                   !.active_sessions = WithoutEntry(@, manager.frame[t].session_id),
                   !.lock = t,
                   !.frame[t].ret = "release",
                   !.frame[t].pc = "send_to_user"]
          ELSE [manager EXCEPT !.frame[t].pc = "closed"]
    /\ UNCHANGED <<locals, workers>>

\* api/websocket.py lines 138-142: POST /ws/sessions/{session_id}/close
RestClose(t) ==
    /\ t \in RestCalls
    /\ manager.frame[t].pc = "idle"
    /\ \E session_id \in SessionIds :
          manager' = [manager EXCEPT
                         !.frame[t] = [@ EXCEPT !.pc = "close_session",
                                                !.session_id = session_id]]
    /\ UNCHANGED <<locals, workers>>

\* the steps of coroutine t the event loop takes when t is ready
Scheduled(t) ==
    \/ Connect(t)
    \/ GetSessionStatus(t)
    \/ UpdateProgress(t)
    \/ SendToUser(t)
    \/ Sending(t)
    \/ RemoveDisconnected(t)
    \/ Disconnect(t)
    \/ CloseSession(t)

ManagerNext ==
    \E t \in Coroutines :
        \/ Open(t)
        \/ Receive(t)
        \/ RestClose(t)
        \/ Scheduled(t)

ManagerSpec == ManagerInit /\ [][ManagerNext]_vars

(***************************************************************************)
(* Properties.                                                              *)
(***************************************************************************)
Returned == pc = "done"

NoStageRaised == raised = ""

GridStored == DOMAIN result.grid_detection /= {}

SegmentationStored == DOMAIN result.biopsy_segmentation /= {}

Contains(seq, x) == \E i \in 1..Len(seq) : seq[i] = x

\* C1: when no stage raises, the returned result has success = TRUE for every
\* grid outcome (found, or replaced by a fallback calibration) and every
\* segmentation outcome (sample found or not).
C1_SuccessWhenNoStageRaises ==
    (Returned /\ NoStageRaised) => result.success = TRUE

C1_Witness ==
    /\ Returned /\ NoStageRaised
    /\ grid_info.has_fallback_info
    /\ ~segmentation_info.biopsy_detected
    /\ result.success

\* C2: when segment_biopsy reports biopsy_detected = FALSE, the returned
\* result has success = TRUE, measurements area_mm2, length_max_mm and
\* width_max_mm equal to 0, manual_measurement_possible = TRUE, pixels_per_mm
\* equal to the scale of the grid stage, at least one warning and a non-null
\* overlay_image, and calculate_measurements was not run.
C2_NoSampleResult ==
    (Returned /\ SegmentationStored /\ ~result.biopsy_segmentation.biopsy_detected) =>
        /\ result.success = TRUE
        /\ DOMAIN result.measurements /= {}
        /\ result.measurements.area_mm2 = Zero
        /\ result.measurements.length_max_mm = Zero
        /\ result.measurements.width_max_mm = Zero
        /\ result.measurements.manual_measurement_possible = TRUE
        /\ result.measurements.pixels_per_mm = grid_info.pixels_per_mm
        /\ Len(result.warnings) >= 1
        /\ result.overlay_image /= "None"
        /\ ~Contains(calls, "calculate_measurements")

\* C3: when calibration_data is supplied and contains pixels_per_mm, neither
\* detect_grid_advanced nor get_fallback_calibration is ever called, and the
\* returned grid_detection has method_used 'manual_calibration', confidence
\* 0.9 and the supplied pixels_per_mm.
C3_ManualCalibrationSkipsDetection ==
    (pc /= "idle" /\ calibration_data.truthy /\ calibration_data.has_pixels_per_mm) =>
        /\ ~Contains(calls, "detect_grid_advanced")
        /\ ~Contains(calls, "get_fallback_calibration")
        /\ Returned =>
              /\ GridStored
              /\ result.grid_detection.method_used = "manual_calibration"
              /\ result.grid_detection.confidence = R(9, 10)
              /\ result.grid_detection.pixels_per_mm = calibration_data.pixels_per_mm

C3_Witness ==
    /\ Returned
    /\ calibration_data.truthy /\ calibration_data.has_pixels_per_mm
    /\ calibration_data.pixels_per_mm = I(40)
    /\ result.grid_detection.method_used = "manual_calibration"

\* C4: every grid estimate with grid_detected = TRUE has pixels_per_mm > 0,
\* both as detect_grid_advanced returns it and as the grid stage stores it in
\* the result, whatever its source.
C4_DetectedGridHasPositiveScale ==
    /\ grid_info.grid_detected => RGt(grid_info.pixels_per_mm, Zero)
    /\ GridStored =>
          (result.grid_detection.grid_detected =>
              RGt(result.grid_detection.pixels_per_mm, Zero))

\* C5: every confidence the pipeline produces lies in [0, 1]: that of each
\* grid detector, of each segmentation strategy, of validate_calibration and
\* of the fallback calibration, and the result's confidence_overall.
C5_ConfidencesInUnitInterval ==
    /\ InUnit(dg.method_result.confidence)
    /\ InUnit(dg.best_confidence)
    /\ InUnit(grid_info.confidence)
    /\ pc /= "idle" =>
          \A i \in 1..Len(Methods), contour \in ContourInputs, edge_sum \in EdgeSumInputs :
              InUnit(RunStrategy(Methods[i], contour, edge_sum, image).confidence)
    /\ InUnit(sg.best_confidence)
    /\ InUnit(segmentation_info.confidence)
    /\ pc /= "idle" =>
          /\ InUnit(validate_calibration(
                        create_emergency_calibration(image.width, grid_size_mm).pixels_per_mm,
                        image.width, image.height).confidence)
          /\ \A i \in 1..Len(typical_calibrations) :
                InUnit(validate_calibration(typical_calibrations[i].pixels_per_mm,
                                            image.width, image.height).confidence)
    /\ InUnit(grid_info.fallback_info.confidence)
    /\ InUnit(result.confidence_overall)

\* C6: auto_correct_perspective returns corrected = TRUE with the rectified
\* image only if the rectified image's quality is strictly higher than the
\* original's; in every other case it returns the original image with
\* corrected = FALSE.
C6_CorrectionKeptOnlyIfStrictlyBetter ==
    persp.stage = "returned" =>
        /\ persp.corrected =>
              /\ persp.image = "rectified"
              /\ RGt(estimate_grid_quality(persp.corrected_angles).quality,
                     estimate_grid_quality(persp.angles).quality)
        /\ ~persp.corrected => persp.image = "original"
        /\ persp.image = "rectified" => persp.corrected

C6_Witness ==
    /\ persp.stage = "returned"
    /\ persp.corrected
    /\ persp.image = "rectified"

\* C7: the returned result holds no numpy scalar or array at any depth of its
\* dicts and lists, on every return path.
C7_ReturnedResultHasNoNumpy ==
    Returned => ~HasNumpy(rtype)

C7_Witness ==
    /\ Returned
    /\ HasNumpy(GridInfoType(grid_info))
    /\ ~HasNumpy(rtype)

C9_FallbackIsSurfaced ==
    (Returned /\ grid_info.has_fallback_info) =>
        /\ Len(result.warnings) > 0
        /\ Contains(result.warnings, grid_info.fallback_info.warning)
        /\ GridStored
        /\ result.grid_detection.method_used = grid_info.fallback_info.method
        /\ (NoStageRaised /\ ~segmentation_info.biopsy_detected) => result.success

C9_Witness ==
    /\ Returned /\ NoStageRaised
    /\ grid_info.has_fallback_info
    /\ grid_info.fallback_info.method = "typical_scenario"
    /\ ~segmentation_info.biopsy_detected
    /\ Len(result.warnings) = 2

\* the scale came from a fallback calibration method: the fallback
\* calibration, the emergency estimate, or the relaxed fallback pass
ScaleFromFallback ==
    grid_info.has_fallback_info \/ grid_info.method_used = "relaxed_fallback"

\* C10: when a sample is detected, confidence_overall is 0.7 * grid
\* confidence + 0.3 * segmentation confidence if the scale came from a
\* fallback calibration method, and the mean of the two otherwise.
C10_OverallConfidenceWeights ==
    (Returned /\ NoStageRaised /\ segmentation_info.biopsy_detected) =>
        result.confidence_overall =
            IF ScaleFromFallback
            THEN RAdd(RMul(grid_info.confidence, R(7, 10)),
                      RMul(segmentation_info.confidence, R(3, 10)))
            ELSE NpDiv(RAdd(grid_info.confidence, segmentation_info.confidence), I(2))

\* segment_biopsy returns: the step that stores its results
SegmentBiopsyReturns == pc = "segment_loop" /\ pc' \in {"measure", "no_sample"}

\* C11: segment_biopsy reports biopsy_detected = TRUE iff the greatest
\* confidence over all candidates that did not raise exceeds 0.5, and then
\* returns the confidence, method and contour of a candidate of that greatest
\* confidence; otherwise it returns biopsy_detected = FALSE with no contour
\* and confidence 0.
C11_BestCandidateAboveHalf ==
    [][SegmentBiopsyReturns =>
          /\ segmentation_info'.biopsy_detected <=> RGt(sg.greatest, R(1, 2))
          /\ segmentation_info'.biopsy_detected =>
                /\ segmentation_info'.confidence = sg.greatest
                /\ segmentation_info'.contour /= NoContour
                /\ \E edge_sum \in EdgeSumInputs :
                      RunStrategy(segmentation_info'.method_used,
                                  segmentation_info'.contour, edge_sum,
                                  image).confidence = sg.greatest
          /\ ~segmentation_info'.biopsy_detected =>
                /\ segmentation_info'.contour = NoContour
                /\ segmentation_info'.mask = "None"
                /\ segmentation_info'.confidence = Zero]_vars

C11_Witness ==
    /\ pc = "measure"
    /\ segmentation_info.biopsy_detected
    /\ RGt(segmentation_info.confidence, R(1, 2))
    /\ segmentation_info.contour /= NoContour

\* the step of detect_grid_advanced that runs the threshold ladder
LadderStep == pc = "detect_threshold" /\ pc' /= "detect_threshold"

\* the first threshold of 0.7, 0.5, 0.3, 0.2 that c strictly exceeds
FirstExceeded(c) ==
    IF RGt(c, R(7, 10)) THEN R(7, 10)
    ELSE IF RGt(c, R(5, 10)) THEN R(5, 10)
    ELSE IF RGt(c, R(3, 10)) THEN R(3, 10)
    ELSE R(2, 10)

\* C12: the best primary-detector result is accepted iff its confidence
\* exceeds the lowest threshold 0.2 (so a greater confidence is never
\* rejected), and detection_threshold_used is the first threshold of 0.7,
\* 0.5, 0.3, 0.2 that the confidence strictly exceeds.
C12_ThresholdLadder ==
    [][LadderStep =>
          /\ (pc' = "grid_returned") <=> RGt(dg.best_confidence, R(2, 10))
          /\ (pc' /= "grid_returned") => (pc' = "detect_relaxed" /\ grid_info' = grid_info)
          /\ (pc' = "grid_returned") =>
                /\ grid_info'.grid_detected
                /\ grid_info'.confidence = dg.best_confidence
                /\ grid_info'.method_used = dg.best_result.method_used
                /\ grid_info'.has_detection_threshold
                /\ grid_info'.detection_threshold_used = FirstExceeded(dg.best_confidence)]_vars

C12_Witness ==
    /\ pc = "grid_returned"
    /\ grid_info.grid_detected
    /\ grid_info.has_detection_threshold
    /\ grid_info.detection_threshold_used = R(3, 10)
    /\ RLe(grid_info.confidence, R(5, 10))

\* calculate_measurements was called directly and has returned
MeasurementsReturned ==
    pc = "returned" /\ calls = <<"calculate_measurements">>

\* a single point, or any contour of zero perimeter
Degenerate(contour) ==
    ~contour.none /\ contour.points > 0 /\ (contour.points = 1 \/ contour.perimeter = 0)

\* C13 as stated: for a degenerate contour and pixels_per_mm > 0,
\* calculate_measurements raises no exception and returns circularity,
\* aspect_ratio, solidity, extent, roundness and compactness equal to 0.
C13_DegenerateRatiosAllZero ==
    (/\ calls = <<"calculate_measurements">>
     /\ pc /= "caller"
     /\ Degenerate(segmentation_info.contour)
     /\ RGt(grid_info.pixels_per_mm, Zero)) =>
        /\ pc = "returned"
        /\ result.measurements.circularity = Zero
        /\ result.measurements.aspect_ratio = Zero
        /\ result.measurements.solidity = Zero
        /\ result.measurements.extent = Zero
        /\ result.measurements.roundness = Zero
        /\ result.measurements.compactness = Zero

\* C13 amended: for a degenerate contour and pixels_per_mm > 0,
\* calculate_measurements raises no exception and returns circularity,
\* solidity, extent, roundness and compactness equal to 0, and aspect_ratio
\* equal to 1.
C13_DegenerateRatios ==
    (/\ calls = <<"calculate_measurements">>
     /\ pc /= "caller"
     /\ Degenerate(segmentation_info.contour)
     /\ RGt(grid_info.pixels_per_mm, Zero)) =>
        /\ pc = "returned"
        /\ result.measurements.circularity = Zero
        /\ result.measurements.aspect_ratio = One
        /\ result.measurements.solidity = Zero
        /\ result.measurements.extent = Zero
        /\ result.measurements.roundness = Zero
        /\ result.measurements.compactness = Zero

C13_Witness ==
    /\ MeasurementsReturned
    /\ segmentation_info.contour = Point
    /\ grid_info.pixels_per_mm = I(40)
    /\ result.measurements.aspect_ratio = One

\* C14: calculate_measurements returns an empty mapping, without raising,
\* whenever the contour is None or has zero points, for any pixels_per_mm
\* (0 included).
C14_EmptyContourGivesEmptyMapping ==
    (/\ calls = <<"calculate_measurements">>
     /\ pc /= "caller"
     /\ (segmentation_info.contour.none \/ segmentation_info.contour.points = 0)) =>
        /\ pc = "returned"
        /\ raised = ""
        /\ DOMAIN result.measurements = {}

C14_Witness ==
    /\ MeasurementsReturned
    /\ segmentation_info.contour = EmptyArray
    /\ grid_info.pixels_per_mm = Zero
    /\ DOMAIN result.measurements = {}

\* max(10, min(width, height) / 100)
EmergencyEstimate(img) ==
    LET smaller == IF img.width < img.height THEN img.width ELSE img.height
    IN  IF smaller > 1000 THEN R(smaller, 100) ELSE I(10)

\* the emergency estimate of the except branch, at every image size
EmergencyEstimateAtEverySize ==
    \A width \in ImageWidths :
        LET img == [width |-> width, height |-> (width * 3) \div 4]
            cal == emergency_fallback(img.width, img.height)
        IN  /\ cal.pixels_per_mm = EmergencyEstimate(img)
            /\ RGt(cal.pixels_per_mm, Zero)
            /\ cal.method = "emergency_fallback"
            /\ cal.confidence = R(1, 10)

\* C15: whenever detect_grid_advanced returns grid_detected = FALSE the grid
\* stage still ends with a defined, positive pixels_per_mm: the fallback
\* calibration's, or, when get_fallback_calibration raises, the emergency
\* estimate max(10, min(width, height) / 100) with method
\* 'emergency_fallback' and confidence 0.1; and the analysis goes on to the
\* segmentation stage.
C15_FallbackAlwaysGivesScale ==
    [][/\ (pc = "grid_returned" /\ ~grid_info.grid_detected) =>
             /\ pc' = "store_grid"
             /\ raised' = ""
             /\ grid_info'.grid_detected
             /\ ~IsNaN(grid_info'.pixels_per_mm)
             /\ RGt(grid_info'.pixels_per_mm, Zero)
             /\ \/ /\ grid_info'.method_used = "emergency_fallback"
                   /\ grid_info'.pixels_per_mm = EmergencyEstimate(image)
                   /\ grid_info'.confidence = R(1, 10)
                \/ /\ grid_info'.method_used =
                         get_fallback_calibration(image.width, image.height,
                                                  grid_size_mm).method
                   /\ grid_info'.pixels_per_mm =
                         get_fallback_calibration(image.width, image.height,
                                                  grid_size_mm).pixels_per_mm
       /\ pc = "store_grid" => (pc' = "segment" /\ raised' = "")
       /\ pc = "segment" => Contains(calls', "segment_biopsy")
       /\ EmergencyEstimateAtEverySize]_vars

C15_Witness ==
    /\ pc = "segment_loop"
    /\ grid_info.method_used = "emergency_fallback"
    /\ grid_info.pixels_per_mm = I(10)
    /\ Contains(calls, "segment_biopsy")

\* C16: in every returned result biopsy_segmentation is a summary: it has
\* neither the key 'contour' nor the key 'mask'; it is empty, or the
\* segmentation dict without those two keys and with contour_points.
C16_SegmentationSummaryOnly ==
    LET summary == result.biopsy_segmentation
        keys == GetKey(rtype, "biopsy_segmentation").keys
    IN  /\ "contour" \notin DOMAIN summary
        /\ "mask" \notin DOMAIN summary
        /\ ~Contains(keys, "contour")
        /\ ~Contains(keys, "mask")
        /\ \/ DOMAIN summary = {}
           \/ /\ DOMAIN summary =
                    (DOMAIN segmentation_info \ {"contour", "mask"}) \cup {"contour_points"}
              /\ \A k \in DOMAIN segmentation_info \ {"contour", "mask"} :
                    summary[k] = segmentation_info[k]
              /\ summary.contour_points = I(segmentation_info.contour.points)

C16_Witness ==
    /\ Returned
    /\ segmentation_info.biopsy_detected
    /\ segmentation_info.contour = Blob
    /\ segmentation_info.mask = "ndarray"
    /\ result.biopsy_segmentation.contour_points = I(40)

\* the step of detect_grid_advanced that calls _detect_grid_relaxed
RelaxedStep == pc = "detect_relaxed" /\ pc' /= "detect_relaxed"

\* C18: detect_grid_advanced attempts the relaxed pass iff no primary
\* detector result exceeded 0.2; the relaxed result is accepted, with
\* grid_detected true and detection_threshold_used 0.1, iff its confidence
\* exceeds 0.1; a relaxed pass that raises has confidence 0, so the function
\* returns grid_detected false and nothing is raised.
C18_RelaxedPass ==
    [][/\ LadderStep =>
             ((pc' = "detect_relaxed" /\ dg'.tried_relaxed)
                 <=> ~(dg.has_best /\ RGt(dg.best_confidence, R(2, 10))))
       /\ (pc' = "detect_relaxed" /\ pc /= "detect_relaxed") => LadderStep
       /\ RelaxedStep =>
             /\ dg.tried_relaxed
             /\ pc' = "grid_returned"
             /\ raised' = raised
             /\ dg'.method_result.method_used = "relaxed_fallback"
             /\ grid_info'.grid_detected <=> RGt(dg'.method_result.confidence, R(1, 10))
             /\ grid_info'.grid_detected =>
                   /\ grid_info'.has_detection_threshold
                   /\ grid_info'.detection_threshold_used = R(1, 10)
                   /\ grid_info'.confidence = dg'.method_result.confidence
                   /\ grid_info'.method_used = "relaxed_fallback"
             /\ ~grid_info'.grid_detected => grid_info' = NotDetected(dg.results)
             /\ \A lines \in RelaxedInputs :
                   LET swallowed == detect_grid_relaxed(lines, TRUE, grid_size_mm)
                   IN  swallowed.confidence = Zero /\ ~swallowed.has_estimate]_vars

C18_Witness ==
    /\ pc = "grid_returned"
    /\ grid_info.grid_detected
    /\ grid_info.method_used = "relaxed_fallback"
    /\ grid_info.detection_threshold_used = R(1, 10)
    /\ grid_info.confidence = R(2, 10)

\* create_emergency_calibration was called directly and has returned
EmergencyCalibrationReturned ==
    pc = "returned" /\ calls = <<"create_emergency_calibration">>

\* the ratios image_width / scene_width within the plausible band [10, 100]
PlausibleCandidates(width) ==
    { p \in { R(width, scene_width) : scene_width \in {100, 150, 200, 250, 300} } :
         RLe(I(10), p) /\ RLe(p, I(100)) }

\* C19: create_emergency_calibration returns the constant 30 only when no
\* candidate scene width gives a plausible ratio; when at least one
\* candidate is plausible it returns a plausible candidate that is closest
\* to 40.
C19_ClosestPlausibleCandidate ==
    EmergencyCalibrationReturned =>
        LET plausible == PlausibleCandidates(image.width)
            estimate == grid_info.fallback_info.pixels_per_mm
        IN  IF plausible = {}
            THEN estimate = I(30)
            ELSE /\ estimate \in plausible
                 /\ \A p \in plausible :
                       RLe(RAbs(RSub(estimate, I(40))), RAbs(RSub(p, I(40))))

\* how many times function f was called
TimesCalled(f) == Cardinality({ i \in 1..Len(calls) : calls[i] = f })

\* f was called, and every call of g came after its first call
CalledBefore(f, g) ==
    \E i \in 1..Len(calls) :
        /\ calls[i] = f
        /\ \A j \in 1..Len(calls) : calls[j] = g => i < j

\* C20: the stages run in the order grid, segmentation, measurement,
\* overlay, confidence aggregation.  segment_biopsy runs exactly once in
\* every analysis whose grid stage completed, whether the scale is manual,
\* detected or a fallback, and never before the grid stage completed;
\* calculate_measurements and create_analysis_overlay run at most once and
\* only after segment_biopsy reported a detected contour.
C20_StageOrder ==
    /\ TimesCalled("segment_biopsy") <= 1
    /\ TimesCalled("calculate_measurements") <= 1
    /\ TimesCalled("create_analysis_overlay") <= 1
    /\ (Returned /\ GridStored) => TimesCalled("segment_biopsy") = 1
    /\ (GridStored /\ pc \notin {"segment", "store_grid"})
          => TimesCalled("segment_biopsy") = 1
    /\ TimesCalled("segment_biopsy") = 1 =>
          /\ GridStored
          /\ \A f \in {"detect_grid_advanced", "get_fallback_calibration"} :
                \A i, j \in 1..Len(calls) :
                    (calls[i] = f /\ calls[j] = "segment_biopsy") => i < j
    /\ TimesCalled("calculate_measurements") = 1 =>
          /\ CalledBefore("segment_biopsy", "calculate_measurements")
          /\ SegmentationStored
          /\ segmentation_info.biopsy_detected
          /\ ~segmentation_info.contour.none
    /\ TimesCalled("create_analysis_overlay") = 1 =>
          /\ CalledBefore("calculate_measurements", "create_analysis_overlay")
          /\ segmentation_info.biopsy_detected
          /\ DOMAIN result.measurements /= {}
    /\ pc = "confidence" =>
          /\ TimesCalled("create_analysis_overlay") = 1
          /\ result.overlay_image = "analysis_overlay"
    /\ ~segmentation_info.biopsy_detected =>
          /\ TimesCalled("calculate_measurements") = 0
          /\ TimesCalled("create_analysis_overlay") = 0

\* a fallback scale, a detected sample, and all five stages run in order
C20_Witness ==
    /\ Returned /\ NoStageRaised
    /\ grid_info.method_used = "typical_scenario"
    /\ segmentation_info.biopsy_detected
    /\ calls = <<"detect_grid_advanced", "get_fallback_calibration", "segment_biopsy",
                 "calculate_measurements", "create_analysis_overlay",
                 "convert_numpy_types", "convert_numpy_types">>

\* the result without the two fields read from the wall clock
WithoutClockFields(res) == [res EXCEPT !.timestamp = 0, !.processing_time_ms = Zero]

\* the call of thread t has returned
WorkerReturned(t) == workers.frame[t].pc = "done"

\* the frame call t would have returned in, had it run alone
Alone(t) ==
    AnalyzeAlone(workers.frame[t].image, workers.frame[t].calibration_data,
                 workers.frame[t].analysis_start)

C21_ConvertedTwiceOnEveryReturn ==
    Returned => TimesCalled("convert_numpy_types") >= 2

\* the stages after the grid stage, by the name recorded when one raises
AfterGridStage == {"segmentation", "measurement", "overlay", "no_sample_overlay"}

\* the stages after the segmentation stage
AfterSegmentationStage == {"measurement", "overlay", "no_sample_overlay"}

\* C22: when a stage raises, the data of every stage that completed before it
\* are still in the result: grid_detection is the grid estimate of the grid
\* stage once segmentation or a later stage raised, biopsy_segmentation is the
\* summary of the segmentation once a later stage raised, measurements are
\* the computed (or the zero) measurements once the overlay raised; and the
\* step that handles the exception, like every step after it, leaves the
\* three fields as they were (the no-sample block stores its zero
\* measurements before its overlay can raise).
C22_PartialDataKept ==
    /\ [](/\ raised \in AfterGridStage =>
                /\ result.grid_detection = grid_info
                /\ GetKey(rtype, "grid_detection") =
                       convert_numpy_types(GridInfoType(grid_info))
          /\ raised \in AfterSegmentationStage =>
                /\ result.biopsy_segmentation = SegmentationForApi(segmentation_info)
                /\ GetKey(rtype, "biopsy_segmentation") =
                       convert_numpy_types(WithoutContourAndMask(
                           SegmentationInfoType(segmentation_info)))
          /\ raised = "overlay" =>
                result.measurements =
                    calculate_measurements(segmentation_info.contour,
                                           grid_info.pixels_per_mm)
          /\ raised = "no_sample_overlay" =>
                result.measurements = NoSampleMeasurements(grid_info))
    /\ [][raised' \in {"grid"} \cup AfterGridStage =>
             /\ result'.grid_detection = result.grid_detection
             /\ result'.biopsy_segmentation = result.biopsy_segmentation
             /\ \/ result'.measurements = result.measurements
                \/ /\ pc = "no_sample"
                   /\ result'.measurements = NoSampleMeasurements(grid_info)]_vars

\* the overlay raised after the grid, the segmentation and the measurements
\* completed, and the call returned
C22_Witness ==
    /\ Returned
    /\ raised = "overlay"
    /\ GridStored /\ SegmentationStored
    /\ result.measurements /= EmptyDict
    /\ Len(result.errors) = 1

\* the loop over the three detectors of detect_grid_advanced has ended
DetectorsTried == pc = "detect_threshold"

\* the detectors that returned a confidence above the initial best of 0
Candidates ==
    { i \in 1..Len(dg.tried) :
        ~dg.tried[i].raised /\ RGt(dg.tried[i].result.confidence, Zero) }

\* detector i returned the strictly greatest confidence: greater than that of
\* every earlier detector, not lower than that of every later one (a detector
\* that raised, or whose confidence is not a number, does not compete)
StrictlyGreatest(i) ==
    \A j \in 1..Len(dg.tried) :
        (j /= i /\ ~dg.tried[j].raised) =>
            IF j < i
            THEN ~RGe(dg.tried[j].result.confidence, dg.tried[i].result.confidence)
            ELSE ~RGt(dg.tried[j].result.confidence, dg.tried[i].result.confidence)

\* C23: when the loop of detect_grid_advanced ends, the three detectors have
\* been called in the order hough, morphological, frequency, whether or not
\* one of them raised, and the selected result is that of the detector with
\* the strictly greatest confidence, the earlier one on a tie (none is
\* selected when no detector returned a confidence above 0).
C23_GreatestConfidenceSelected ==
    DetectorsTried =>
        /\ raised = ""
        /\ Len(dg.tried) = 3
        /\ dg.tried[1].result.method_used = "hough"
        /\ dg.tried[2].result.method_used = "morphological"
        /\ dg.tried[3].result.method_used = "frequency"
        /\ dg.has_best <=> Candidates /= {}
        /\ dg.has_best =>
              \E i \in Candidates :
                 /\ dg.best_result = dg.tried[i].result
                 /\ dg.best_confidence = dg.tried[i].result.confidence
                 /\ StrictlyGreatest(i)

\* the morphological detector raised, the two others returned the same
\* confidence, and the earlier of them, the hough detector, is selected
C23_Witness ==
    /\ DetectorsTried
    /\ dg.tried[2].raised
    /\ dg.tried[1].result.confidence = dg.tried[3].result.confidence
    /\ dg.has_best
    /\ dg.best_result.method_used = "hough"

\* fewer than two of the lines are horizontal, or fewer than two are vertical
Sparse(lines, tol) ==
    Len(HorizontalRhos(lines, tol)) <= 1 \/ Len(VerticalRhos(lines, tol)) <= 1

\* _detect_grid_hough has returned to the loop of detect_grid_advanced
HoughReturned == pc = "detect_methods" /\ dg.idx = 2 /\ ~dg.tried[1].raised

\* _detect_grid_relaxed has returned to detect_grid_advanced
RelaxedReturned ==
    pc = "grid_returned" /\ dg.method_result.method_used = "relaxed_fallback"

\* C24: when the hough or the relaxed detector finds zero or one line in an
\* orientation, the detector (for which the spacing of that orientation is
\* 0) returns confidence 0 and no pixels_per_mm; detect_grid_advanced
\* neither selects nor accepts that result.
C24_SparseLinesGiveNoEstimate ==
    /\ [](/\ (HoughReturned /\ Sparse(dg.lines, HoughTolerance)) =>
                /\ dg.tried[1].result.confidence = Zero
                /\ ~dg.tried[1].result.has_estimate
                /\ ~dg.has_best
          /\ (RelaxedReturned /\ Sparse(dg.lines, RelaxedTolerance)) =>
                /\ dg.method_result.confidence = Zero
                /\ ~dg.method_result.has_estimate
                /\ ~grid_info.grid_detected)
    /\ [][(pc = "detect_threshold" /\ Sparse(dg.lines, HoughTolerance)) =>
             grid_info'.method_used /= "hough"]_vars

\* the relaxed detector found four lines, none of them horizontal or
\* vertical, and its result was not accepted
C24_Witness ==
    /\ RelaxedReturned
    /\ Len(dg.lines) = 4
    /\ HorizontalRhos(dg.lines, RelaxedTolerance) = <<>>
    /\ VerticalRhos(dg.lines, RelaxedTolerance) = <<>>
    /\ ~grid_info.grid_detected

C26_SuccessImpliesNoErrors ==
    Returned => (result.success => result.errors = <<>>)

\* C27: the confidence attached to a fallback calibration, stored as
\* grid_detection.confidence, is strictly lower than the 0.9 of a manual
\* calibration.
C27_FallbackBelowManual ==
    (GridStored /\ grid_info.has_fallback_info) =>
        /\ result.grid_detection.confidence = grid_info.fallback_info.confidence
        /\ RLt(result.grid_detection.confidence,
               ManualGridInfo(calibration_data).confidence)

\* the loop over the strategies and preprocessing variants has ended
StrategiesTried == pc = "segment_loop" /\ sg.idx > Len(Methods) * Len(Variants)

\* C28: a candidate of the edge-based strategy is never the accepted
\* segmentation: its confidence is at most 0.5, segment_biopsy does not
\* accept it even when it is the best candidate, and whenever
\* biopsy_detected is TRUE, method_used is watershed, adaptive_threshold or
\* color_based.
C28_EdgeBasedNeverAccepted ==
    /\ [](/\ sg.best_result.method_used = "edge_based" =>
                RLe(sg.best_confidence, R(5, 10))
          /\ segmentation_info.biopsy_detected =>
                segmentation_info.method_used
                    \in {"watershed", "adaptive_threshold", "color_based"}
          /\ (SegmentationStored /\ result.biopsy_segmentation.biopsy_detected) =>
                result.biopsy_segmentation.method_used /= "edge_based")
    /\ [][(StrategiesTried /\ sg.best_result.method_used = "edge_based") =>
             ~segmentation_info'.biopsy_detected]_vars

\* the best candidate of the loop is an edge-based one at its cap of 0.5
C28_Witness ==
    /\ StrategiesTried
    /\ sg.has_best
    /\ sg.best_result.method_used = "edge_based"
    /\ sg.best_confidence = R(5, 10)

\* the smaller axis of the contour is 0: of the fitted ellipse with five or
\* more points, of the bounding box otherwise
MinorAxisIsZero(contour) ==
    IF contour.points >= 5
    THEN contour.major = 0 \/ contour.minor = 0
    ELSE contour.w = 0 \/ contour.h = 0

\* C29: for a non-empty contour and pixels_per_mm > 0, calculate_measurements
\* returns length_max_mm >= width_max_mm and aspect_ratio >= 1, with the
\* ellipse fit (five or more points) and with the bounding box (fewer); the
\* aspect_ratio is 1 when the minor axis is 0.
C29_LengthNotBelowWidth ==
    (/\ MeasurementsReturned
     /\ segmentation_info.contour.points > 0
     /\ RGt(grid_info.pixels_per_mm, Zero)) =>
        /\ RGe(result.measurements.length_max_mm, result.measurements.width_max_mm)
        /\ RGe(result.measurements.aspect_ratio, One)
        /\ MinorAxisIsZero(segmentation_info.contour) =>
              result.measurements.aspect_ratio = One

\* an ellipse fitted with its axes in ascending order, 180 and 210 pixels at
\* 30 pixels per mm: the length is 7 mm, the width 6 mm
C29_Witness ==
    /\ MeasurementsReturned
    /\ segmentation_info.contour = Blob
    /\ Blob.major < Blob.minor
    /\ grid_info.pixels_per_mm = I(30)
    /\ result.measurements.length_max_mm = I(7)
    /\ result.measurements.width_max_mm = I(6)
    /\ result.measurements.aspect_ratio = R(117, 100)

\* coroutine t is inside a call of the ConnectionManager
InCall(t) ==
    manager.frame[t].pc \in {"connect", "get_session_status", "update_progress",
                             "send_to_user", "sending", "remove_disconnected",
                             "disconnect", "close_session"}

\* C30: close_session on an existing session completes and releases the
\* lock, and no call of the ConnectionManager blocks forever: whenever a
\* coroutine is inside a call, that coroutine can take a step, or the lock it
\* waits for is held by another coroutine that can take a step.
C30_NoCallBlocksForever ==
    \A t \in Coroutines :
        InCall(t) =>
            \/ ENABLED Scheduled(t)
            \/ \E holder \in Coroutines :
                  /\ holder /= t
                  /\ manager.lock = holder
                  /\ ENABLED Scheduled(holder)

====
